---- MODULE Spec2Model ----
(***************************************************************************)
(* Marker editor for a Plex library: the marker mutation engine (add /     *)
(* edit / delete with re-indexing), the statistics caches and the action   *)
(* log, as a state machine.                                                *)
(*                                                                         *)
(* Sources: the add/edit/delete commands are CoreCommands                  *)
(* (src/unnamed/part_002); the statistics cache, the restore/purge         *)
(* endpoints and get_stats are the server module (src/unnamed/part_001);   *)
(* the bucket arithmetic is src/Shared/MarkerBreakdown.js.  The database   *)
(* adapter (QueryManager), the backup manager (action log) and the marker  *)
(* cache manager are not among the sources: they are modelled from the     *)
(* specification (sections 4.A, 4.C, 4.D, 4.E, 4.F) and marked so.         *)
(*                                                                         *)
(* Times are scaled: an item lasts Dur units instead of 600000 ms.         *)
(***************************************************************************)
EXTENDS Integers, Sequences, FiniteSets, TLC

(***************************************************************************)
(* Bounds of the model.                                                    *)
(***************************************************************************)
\* Duration of every episode (600000 ms in the test database).
Dur == 3
\* At most this many mutations commit in one behaviour.
MaxOps == 2
\* A shift moves a marker by at most this much, in either direction.
MaxShift == 2

(***************************************************************************)
(* The library: the items of the test database that matter here.           *)
(***************************************************************************)
\* TestBase.DefaultMetadata: Show1, Season1, Episode1 (no marker), Episode2.
ShowId == 1
SeasonId == 2
Episode1 == 3
Episode2 == 4

Episodes == {Episode1, Episode2}
Items == {ShowId, SeasonId} \cup Episodes
\* A metadata id that is no row of metadata_items.
NoItem == CHOOSE i \in 0..ShowId : i \notin Items
ItemType(i) ==
    IF i \in Episodes THEN "episode"
    ELSE IF i = SeasonId THEN "season"
    ELSE IF i = ShowId THEN "show"
    ELSE "none"
\* The episodes below a subtree root (show / season / episode).
EpisodesUnder(root) ==
    IF root \in Episodes THEN {root}
    ELSE IF root \in {ShowId, SeasonId} THEN Episodes
    ELSE {}
duration(p) == Dur

MarkerTypes == {"intro", "credits", "commercial"}
\* CoreCommands.addMarker carries no type: the markers it adds are intros.
AddTypes == {"intro"}
\* Times a request may carry: one below zero and one beyond the duration.
Times == (0 - 1)..(Dur + 1)

VARIABLES
    db,          \* library DB, table taggings: marker id -> row
    nextId,      \* the id the library DB assigns to the next inserted row
    inflight,    \* index updates issued without await, not yet executed
    legacyCache, \* markerBreakdownCache[section]: [built, map]
    markerCache, \* MarkerCache (extended statistics): [built, items, map]
    log,         \* the action log (backup database), oldest first
    purged,      \* the purged-marker index of the backup manager
    commits,     \* history: the mutations that committed to the library DB
    config,      \* [backupActions, extendedMarkerStats]
    before,      \* history: the state before the Add that committed last
    serverUp,    \* the server is listening: launched, no uncaught exception
    boot,        \* the startup sequence: [pc, launches, cacheFailed]
    breakdown,   \* a MarkerBreakdown object and what was done with it
    listing,     \* the get_episodes request under way: the handler's locals
    resp,        \* the response the client has not read yet, with its request
    running      \* client -> its handler when handlers run concurrently

vars == <<db, nextId, inflight, legacyCache, markerCache, log, purged,
          commits, before, config, boot, serverUp, running, resp, breakdown,
          listing>>

(***************************************************************************)
(* Sequences and sorting.                                                  *)
(***************************************************************************)
Range(s) == {s[i] : i \in DOMAIN s}

\* Rows of a set, ascending by start (ties by id): ORDER BY of the adapter.
RECURSIVE SortedRows(_)
SortedRows(S) ==
    IF S = {} THEN <<>>
    ELSE LET m == CHOOSE x \in S : \A y \in S :
                     \/ x.start < y.start
                     \/ (x.start = y.start /\ x.id <= y.id)
         IN <<m>> \o SortedRows(S \ {m})

\* Insert x behind every element whose start is <= x.start.
RECURSIVE InsertStable(_, _)
InsertStable(x, s) ==
    IF s = <<>> THEN <<x>>
    ELSE IF x.start < Head(s).start THEN <<x>> \o s
    ELSE <<Head(s)>> \o InsertStable(x, Tail(s))

\* Array.prototype.sort((a, b) => a.start - b.start): a stable sort.
RECURSIVE SortByStart(_)
SortByStart(s) ==
    IF s = <<>> THEN <<>>
    ELSE InsertStable(s[Len(s)], SortByStart(SubSeq(s, 1, Len(s) - 1)))

(***************************************************************************)
(* Library DB adapter (QueryManager): reads.                               *)
(***************************************************************************)
Row(d, id) == [id |-> id, pid |-> d[id].pid, start |-> d[id].start,
               end |-> d[id].end, index |-> d[id].index, type |-> d[id].type,
               final |-> d[id].final]

RowsOf(d, p) == {Row(d, id) : id \in {i \in DOMAIN d : d[i].pid = p}}

\* getSingleMarker: the row, or a null result.
Null == [id |-> 0]
getSingleMarker(d, id) == IF id \in DOMAIN d THEN Row(d, id) ELSE Null

\* getEpisodeMarkers: the markers of one item, sorted by start.
getEpisodeMarkers(d, p) == SortedRows(RowsOf(d, p))

(***************************************************************************)
(* CoreCommands (src/unnamed/part_002): the in-memory reasoning of the     *)
(* handlers, as operators.                                                 *)
(***************************************************************************)
\* #checkMarkerBounds: "ok", or the error thrown.
checkMarkerBoundsNoNegative(startMs, endMs) ==
    IF startMs >= endMs THEN "BadRequest" ELSE "ok"

checkMarkerBounds(startMs, endMs) ==
    IF startMs >= endMs THEN "BadRequest"
    ELSE IF startMs < 0 THEN "BadRequest"
    ELSE "ok"

\* The overlap test of the loop in editMarker.
EditOverlapsNever(marker, markerId, startMs, endMs) == FALSE

EditOverlaps(marker, markerId, startMs, endMs) ==
    marker.end >= startMs /\ marker.start <= endMs /\ marker.id # markerId

\* editMarker between getEpisodeMarkers and QueryManager.editMarker:
\* replace the interval of allMarkers[oldIndex], sort, look for an overlap,
\* derive newIndex and the rows whose stored index differs from their rank.
EditPlan(allMarkers, oldIndex, markerId, startMs, endMs) ==
    IF oldIndex < 0 \/ oldIndex >= Len(allMarkers)
    THEN \* allMarkers[oldIndex] is undefined: the assignment throws
         [err |-> "TypeError", newIndex |-> 0, writes |-> {}]
    ELSE
    LET replaced == [allMarkers EXCEPT ![oldIndex + 1] =
                        [@ EXCEPT !.start = startMs, !.end = endMs]]
        sorted == SortByStart(replaced)
        hits == {i \in DOMAIN sorted : sorted[i].id = markerId}
        newIndex == IF hits = {} THEN 0
                    ELSE (CHOOSE i \in hits : \A j \in hits : j <= i) - 1
    IN IF \E i \in DOMAIN sorted :
              EditOverlaps(sorted[i], markerId, startMs, endMs)
       THEN [err |-> "Overlap", newIndex |-> 0, writes |-> {}]
       ELSE [err |-> "ok", newIndex |-> newIndex,
             writes |-> {[id |-> sorted[i].id, index |-> i - 1] :
                           i \in {j \in DOMAIN sorted :
                                    sorted[j].index # j - 1}}]

\* deleteMarker: the index of the row to delete and the index updates that
\* are issued after the row is gone.
DeletePlan(allMarkers, markerId) ==
    LET hits == {i \in DOMAIN allMarkers : allMarkers[i].id = markerId}
        deleteIndex == IF hits = {} THEN 0
                       ELSE allMarkers[CHOOSE i \in hits :
                                          \A j \in hits : j <= i].index
    IN [deleteIndex |-> deleteIndex,
        writes |-> IF deleteIndex < Len(allMarkers) - 1
                   THEN {[id |-> allMarkers[i].id,
                          index |-> allMarkers[i].index - 1] :
                           i \in {j \in DOMAIN allMarkers :
                                    allMarkers[j].index > deleteIndex}}
                   ELSE {}]

(***************************************************************************)
(* Library DB adapter (QueryManager): writes.                              *)
(***************************************************************************)
\* Half-open intervals [s1, e1) and [s2, e2) intersect.
Intersects(s1, e1, s2, e2) == s1 < e2 /\ s2 < e1

\* QueryManager.addMarker up to its transaction: resolve the parent,
\* validate, load the markers, reject an overlap.
AddCheck(d, metadataId, startMs, endMs) ==
    IF ItemType(metadataId) # "episode" THEN "BadTarget"
    ELSE IF startMs < 0 \/ startMs >= endMs \/ endMs > duration(metadataId)
    THEN "BadRequest"
    ELSE IF \E m \in RowsOf(d, metadataId) :
               Intersects(startMs, endMs, m.start, m.end)
    THEN "Overlap"
    ELSE "ok"

\* The transaction of QueryManager.addMarker: the new row gets its rank
\* among the markers of the item, the rows whose rank shifted get theirs.
AddApply(d, newId, metadataId, startMs, endMs, type) ==
    LET old == getEpisodeMarkers(d, metadataId)
        new == [id |-> newId, pid |-> metadataId, start |-> startMs,
                end |-> endMs, index |-> 0, type |-> type, final |-> FALSE]
        all == SortedRows(RowsOf(d, metadataId) \cup {new})
        rank(s, id) == (CHOOSE i \in DOMAIN s : s[i].id = id) - 1
    IN [id \in DOMAIN d \cup {newId} |->
          IF id = newId
          THEN [pid |-> metadataId, start |-> startMs, end |-> endMs,
                index |-> rank(all, newId), type |-> type, final |-> FALSE]
          ELSE IF d[id].pid = metadataId /\ rank(all, id) # rank(old, id)
          THEN [d[id] EXCEPT !.index = rank(all, id)]
          ELSE d[id]]

\* QueryManager.editMarker: one UPDATE of the target row.
EditApply(d, markerId, newIndex, startMs, endMs) ==
    IF markerId \notin DOMAIN d THEN d
    ELSE [d EXCEPT ![markerId] =
            [@ EXCEPT !.index = newIndex, !.start = startMs, !.end = endMs]]

\* QueryManager.deleteMarker: one DELETE.
DeleteApply(d, markerId) == [id \in DOMAIN d \ {markerId} |-> d[id]]

\* QueryManager.updateMarkerIndex: one UPDATE; no row, no effect.
updateMarkerIndex(d, id, index) ==
    IF id \in DOMAIN d THEN [d EXCEPT ![id] = [@ EXCEPT !.index = index]]
    ELSE d

(***************************************************************************)
(* JavaScript objects that map a number to a number.  A key holds an       *)
(* integer or NaN: counts gives the integer, nan the keys that hold NaN    *)
(* (their count is kept 0).                                                *)
(***************************************************************************)
EmptyMap == [counts |-> <<>>, nan |-> {}]
Has(m, k) == k \in DOMAIN m.counts
Put(m, k, v) ==
    [counts |-> [x \in DOMAIN m.counts \cup {k} |->
                    IF x = k THEN v ELSE m.counts[x]],
     nan |-> m.nan \ {k}]
PutNaN(m, k) ==
    [counts |-> [x \in DOMAIN m.counts \cup {k} |->
                    IF x = k THEN 0 ELSE m.counts[x]],
     nan |-> m.nan \cup {k}]
\* m[k] += by (by = 1: ++m[k], by = -1: --m[k]); undefined and NaN give NaN.
Bump(m, k, by) ==
    IF ~Has(m, k) \/ k \in m.nan THEN PutNaN(m, k)
    ELSE Put(m, k, m.counts[k] + by)
\* m[k] ??= 0
Default0(m, k) == IF Has(m, k) THEN m ELSE Put(m, k, 0)
\* The keys that hold something else than 0.
Minify(m) ==
    [counts |-> [x \in {k \in DOMAIN m.counts :
                          m.counts[k] # 0 \/ k \in m.nan} |-> m.counts[x]],
     nan |-> m.nan]

(***************************************************************************)
(* markerBreakdownCache (src/unnamed/part_001): per section, the number    *)
(* of episodes that have X markers.  Filled by the first get_stats.        *)
(***************************************************************************)
\* The rows of markerStatsForSection: every episode of the section joined
\* with its taggings, ordered by episode id; an episode without taggings
\* gives one row with a null tag.
RECURSIVE StatRows(_, _)
StatRows(d, eps) ==
    IF eps = {} THEN <<>>
    ELSE LET e == CHOOSE x \in eps : \A y \in eps : x <= y
             n == Cardinality(RowsOf(d, e))
         IN (IF n = 0 THEN <<[episode_id |-> e, marker |-> FALSE]>>
             ELSE [i \in 1..n |-> [episode_id |-> e, marker |-> TRUE]])
            \o StatRows(d, eps \ {e})

\* The loop of allStats over the rows, from row i on.
RECURSIVE ScanLoop(_, _, _, _, _)
ScanLoop(rows, i, buckets, idCur, countCur) ==
    IF i > Len(rows)
    THEN \* ++buckets[countCur]
         Bump(buckets, countCur, 1)
    ELSE IF rows[i].episode_id = idCur
    THEN ScanLoop(rows, i + 1, buckets, idCur,
                  IF rows[i].marker THEN countCur + 1 ELSE countCur)
    ELSE LET b == IF ~Has(buckets, countCur)
                     \/ countCur \in buckets.nan
                     \/ buckets.counts[countCur] = 0
                  THEN Put(buckets, countCur, 0)
                  ELSE buckets
         IN ScanLoop(rows, i + 1, Bump(b, countCur, 1), rows[i].episode_id,
                     IF rows[i].marker THEN 1 ELSE 0)

\* The buckets allStats computes from the library DB.
LiveScan(d) == ScanLoop(StatRows(d, Episodes), 1, EmptyMap, 0 - 1, 0)

\* updateMarkerBreakdownCache(marker, oldMarkerCount, delta).
LegacyUpdate(cache, oldMarkerCount, delta) ==
    IF ~cache.built THEN cache
    ELSE LET c1 == IF ~Has(cache.map, oldMarkerCount)
                   THEN Put(cache.map, oldMarkerCount, 1)
                   ELSE cache.map
             c2 == Bump(c1, oldMarkerCount, 0 - 1)
             newMarkerCount == oldMarkerCount + delta
             c3 == IF ~Has(c2, newMarkerCount)
                   THEN Put(c2, newMarkerCount, 0)
                   ELSE c2
         IN [built |-> TRUE, map |-> Bump(c3, newMarkerCount, 1)]

(***************************************************************************)
(* MarkerBreakdown (src/Shared/MarkerBreakdown.js) and the marker cache    *)
(* manager that owns one breakdown per section.                            *)
(***************************************************************************)
CreditsShift == 16

\* A deltaFromType that leaves the credits where the intros are.
deltaFromTypeUnshifted(delta, markerType) == delta

\* MarkerBreakdown.deltaFromType
deltaFromType(delta, markerType) ==
    IF markerType = "intro" THEN delta
    ELSE IF markerType = "credits" THEN delta * (2 ^ CreditsShift)
    ELSE delta

\* MarkerBreakdown.keyFromMarkerCount
keyFromMarkerCount(intros, credits) ==
    deltaFromType(intros, "intro") + deltaFromType(credits, "credits")

\* MarkerBreakdown.delta(oldBucket, delta) on #counts
BreakdownDelta(m, oldBucket, delta) ==
    Bump(Bump(Default0(m, oldBucket + delta), oldBucket, 0 - 1),
         oldBucket + delta, 1)

\* The bucket key of an item, from the library DB.
ItemKey(d, p) ==
    keyFromMarkerCount(
        Cardinality({m \in RowsOf(d, p) : m.type = "intro"}),
        Cardinality({m \in RowsOf(d, p) : m.type = "credits"}))

\* buildCache: one pass over the section overview.
BuildMarkerCache(d) ==
    [built |-> TRUE,
     items |-> [p \in Episodes |-> ItemKey(d, p)],
     map |-> [counts |-> [k \in {0} \cup {ItemKey(d, p) : p \in Episodes} |->
                            Cardinality({p \in Episodes : ItemKey(d, p) = k})],
              nan |-> {}]]

NullMarkerCache == [built |-> FALSE, items |-> <<>>, map |-> EmptyMap]

\* MarkerCache?.addMarkerToCache(marker) / removeMarkerFromCache(id):
\* by = 1 or -1.  Commercial markers are not part of the breakdown.
MarkerCacheDelta(cache, marker, by) ==
    IF ~cache.built \/ marker.type \notin {"intro", "credits"} THEN cache
    ELSE LET old == cache.items[marker.pid]
             dlt == deltaFromType(by, marker.type)
         IN [built |-> TRUE,
             items |-> [cache.items EXCEPT ![marker.pid] = old + dlt],
             map |-> BreakdownDelta(cache.map, old, dlt)]

(***************************************************************************)
(* The action log and the purged-marker index (backup manager).            *)
(* An entry: [op, id, key, pid, start, end, type]; key is the restore key  *)
(* that links the entries of one marker across a restore.                  *)
(***************************************************************************)
\* The latest of the positions hits of the log, 0 if there is none.
LastIndex(hits) ==
    IF hits = {} THEN 0 ELSE CHOOSE i \in hits : \A j \in hits : j <= i

\* The restore key of a marker id: that of its latest entry, else the id.
KeyOf(l, id) ==
    LET i == LastIndex({k \in DOMAIN l : l[k].id = id})
    IN IF i = 0 THEN id ELSE l[i].key

Entry(op, marker, key) ==
    [op |-> op, id |-> marker.id, key |-> key, pid |-> marker.pid,
     start |-> marker.start, end |-> marker.end, type |-> marker.type,
     final |-> marker.final]

recordAdd(l, marker) == Append(l, Entry("Add", marker, marker.id))
recordEdit(l, marker) == Append(l, Entry("Edit", marker, KeyOf(l, marker.id)))
recordDelete(l, marker) ==
    Append(l, Entry("Delete", marker, KeyOf(l, marker.id)))
recordRestore(l, marker, oldId) ==
    Append(l, Entry("Restore", marker, KeyOf(l, oldId)))
\* An Ignore entry repeats the last known state of the purged marker.
recordIgnore(l, purgedMarker) ==
    Append(l, [purgedMarker EXCEPT !.op = "Ignore"])

\* Purge candidates taken by marker id, without the restore key that links
\* a restored marker to the marker it replaces.
PurgeCandidatesById(l, d) ==
    LET ids == {l[i].id : i \in DOMAIN l}
        Last(k) == l[LastIndex({i \in DOMAIN l : l[i].id = k})]
        Live(e) == \/ e.id \in DOMAIN d
                   \/ \E m \in RowsOf(d, e.pid) :
                        m.start = e.start /\ m.end = e.end /\ m.type = e.type
    IN {Last(k) : k \in {x \in ids :
                           /\ Last(x).op \in {"Add", "Edit", "Restore"}
                           /\ ~Live(Last(x))}}

\* The markers the log knows (last entry Add, Edit or Restore) that the
\* library DB has neither by id nor by (parent, start, end, type).
PurgeCandidates(l, d) ==
    LET keys == {l[i].key : i \in DOMAIN l}
        Last(k) == l[LastIndex({i \in DOMAIN l : l[i].key = k})]
        Live(e) == \/ e.id \in DOMAIN d
                   \/ \E m \in RowsOf(d, e.pid) :
                        m.start = e.start /\ m.end = e.end /\ m.type = e.type
    IN {Last(k) : k \in {x \in keys :
                           /\ Last(x).op \in {"Add", "Edit", "Restore"}
                           /\ ~Live(Last(x))}}

(***************************************************************************)
(* Responses.                                                              *)
(***************************************************************************)
\* The status code of a response: a ServerError carries 400, any other
\* error thrown is answered with 500.
StatusOf(kind) ==
    IF kind \in {"none", "Crash"} THEN 0
    ELSE IF kind = "ok" THEN 200
    ELSE IF kind \in {"BadRequest", "BadTarget", "NotFound", "Overlap",
                      "Disabled", "StatsFailed", "Overflow", "EditFailed"}
    THEN 400
    ELSE IF kind = "Conflict" THEN 200
    ELSE 500

\* A request: the endpoint and its parameters (0 where it has none).
FullRequest(op, id, startMs, endMs, type, final, force, ignored) ==
    [op |-> op, id |-> id, start |-> startMs, end |-> endMs, type |-> type,
     final |-> final, force |-> force, ignored |-> ignored]

\* A request with a marker type and a final flag.
TypedRequest(op, id, startMs, endMs, type, final) ==
    FullRequest(op, id, startMs, endMs, type, final, FALSE, {})

\* A request that carries no type and no final flag.
Request(op, id, startMs, endMs) ==
    TypedRequest(op, id, startMs, endMs, "none", FALSE)

\* The response to a request, paired with the request it answers.  markers,
\* applied and conflict are the allMarkers (as ids), applied and conflict
\* fields of a ShiftResult.
Response(req, kind) ==
    [op |-> req.op, id |-> req.id, start |-> req.start, end |-> req.end,
     type |-> req.type, final |-> req.final, force |-> req.force,
     ignored |-> req.ignored, markers |-> {}, applied |-> FALSE,
     conflict |-> (kind = "Conflict"),
     kind |-> kind, code |-> StatusOf(kind)]
NoResponse == Response(Request("none", 0, 0, 0), "none")

(***************************************************************************)
(* Handlers in progress.  A handler is suspended at an await; pc names the *)
(* await it has reached.                                                   *)
(***************************************************************************)
Clients == {1, 2}
NoPlan == [err |-> "none", newIndex |-> 0, writes |-> {}]
NoMarker == [id |-> 0, pid |-> 0, start |-> 0, end |-> 0, index |-> 0,
             type |-> "none", final |-> FALSE]
NoSnapshot == [id |-> 0, deleted |-> FALSE, db |-> <<>>,
               legacyCache |-> <<>>, markerCache |-> <<>>, log |-> <<>>]
NoHandler == [pc |-> "idle", req |-> Request("none", 0, 0, 0),
              marker |-> NoMarker, plan |-> NoPlan, seq |-> 0]

(***************************************************************************)
(* The state after startup.  Episode2 has an intro and a credits marker    *)
(* that the library made itself; with the action log on, an earlier        *)
(* session added a marker to Episode1 that the library has wiped since.    *)
(***************************************************************************)
InitDb ==
    [id \in {1, 2} |->
        IF id = 1
        THEN [pid |-> Episode2, start |-> 0, end |-> 1, index |-> 0,
              type |-> "intro", final |-> FALSE]
        ELSE [pid |-> Episode2, start |-> 2, end |-> 3, index |-> 1,
              type |-> "credits", final |-> TRUE]]

\* No MarkerBreakdown object is looked at.
NoBreakdown ==
    [counts |-> EmptyMap, inits |-> 0, bucket |-> 0, intros |-> 0,
     credits |-> 0, commercials |-> 0, moves |-> 0, last |-> "none"]

\* No get_episodes request is under way.
NoListing ==
    [pc |-> "none", useThumbnails |-> FALSE, waitingFor |-> 0,
     episodes |-> <<>>, pending |-> {}, responses |-> 0, code |-> 0,
     sent |-> <<>>, served |-> 0]

\* The startup sequence when the server has been launched.
Launched == [pc |-> "launched", launches |-> 1, cacheFailed |-> FALSE]

\* The purged-marker indexes startup can leave behind: buildAllPurges is
\* called only with the action log on and the marker cache built, and it
\* may fail, which is logged and leaves the index empty.
StartupPurges(cfg, l, d) ==
    IF cfg.backupActions /\ cfg.extendedMarkerStats
    THEN {PurgeCandidates(l, d), {}}
    ELSE {{}}

InitLog ==
    <<[op |-> "Add", id |-> 3, key |-> 3, pid |-> Episode1, start |-> 1,
       end |-> 2, type |-> "intro", final |-> FALSE]>>

Init ==
    /\ db = InitDb
    /\ nextId = 4
    /\ inflight = {}
    /\ config \in [backupActions : BOOLEAN, extendedMarkerStats : BOOLEAN]
    /\ legacyCache = [built |-> FALSE, map |-> EmptyMap]
    /\ markerCache = IF config.extendedMarkerStats
                     THEN BuildMarkerCache(InitDb) ELSE NullMarkerCache
    /\ log = IF config.backupActions THEN InitLog ELSE <<>>
    /\ purged \in StartupPurges(config, InitLog, InitDb)
    /\ commits = <<>>
    /\ resp = NoResponse
    /\ running = [c \in Clients |-> NoHandler]
    /\ serverUp = TRUE
    /\ boot = Launched
    /\ breakdown = NoBreakdown
    /\ listing = NoListing
    /\ before = NoSnapshot

(***************************************************************************)
(* Requests.  One action is one request, from its arrival to its response; *)
(* what a handler issues without awaiting it (the index updates of edit    *)
(* and delete) is left in flight and executes later.  The outcome of a     *)
(* handler before its database write is an operator of the state and the   *)
(* parameters: "ok", or the error it throws.  The client sends a request   *)
(* once it has read the response to the one before (TestBase.send is       *)
(* awaited).                                                               *)
(***************************************************************************)
\* The request ends here with an error response; nothing else changes.
Reply(req, kind) ==
    /\ resp' = Response(req, kind)
    /\ UNCHANGED <<db, nextId, inflight, legacyCache, markerCache, log,
                   purged, commits, before, config, boot, serverUp, running,
                   breakdown, listing>>

\* An awaited write to the library DB is rejected: the handler throws at the
\* await and nothing behind it runs.
WriteFailsRecorded(req, marker) ==
    /\ resp' = Response(req, "DbError")
    /\ log' = Append(log, Entry(req.op, marker, marker.id))
    /\ UNCHANGED <<db, nextId, inflight, legacyCache, markerCache, purged,
                   commits, before, config, boot, serverUp, running,
                   breakdown, listing>>

WriteFails(req, marker) == Reply(req, "DbError")

\* await BackupManager?.recordAdd / recordEdit / recordDelete: without a
\* backup manager nothing is recorded.
RecordedNever(new) == log

Recorded(new) == IF config.backupActions THEN new ELSE log

\* The write of operation op on id has committed.  The history keeps the
\* state an Add found, notes when the next mutation deletes the added marker,
\* and forgets the Add at any other mutation.
Commit(op, id) ==
    /\ commits' = Append(commits, [op |-> op, id |-> id])
    /\ before' =
          IF op = "Add"
          THEN [id |-> id, deleted |-> FALSE, db |-> db,
                legacyCache |-> legacyCache, markerCache |-> markerCache,
                log |-> log]
          ELSE IF op = "Delete" /\ before.id = id /\ ~before.deleted
          THEN [before EXCEPT !.deleted = TRUE]
          ELSE NoSnapshot

\* CoreCommands.addMarker up to the insert.
AddOutcomeBoundsOnly(d, metadataId, startMs, endMs) ==
    checkMarkerBounds(startMs, endMs)

AddOutcome(d, metadataId, startMs, endMs) ==
    IF checkMarkerBounds(startMs, endMs) # "ok"
    THEN checkMarkerBounds(startMs, endMs)
    ELSE AddCheck(d, metadataId, startMs, endMs)

\* CoreCommands.addMarker
AddMarker(metadataId, startMs, endMs, type) ==
    LET req == Request("add", metadataId, startMs, endMs)
        outcome == AddOutcome(db, metadataId, startMs, endMs)
        newDb == AddApply(db, nextId, metadataId, startMs, endMs, type)
        newMarker == Row(newDb, nextId)
        allMarkers == getEpisodeMarkers(newDb, metadataId)
    IN IF outcome # "ok" THEN Reply(req, outcome)
       ELSE \/ WriteFails(req, newMarker)
            \/ /\ Len(commits) < MaxOps
               /\ db' = newDb
               /\ nextId' = nextId + 1
               /\ legacyCache' =
                     LegacyUpdate(legacyCache, Len(allMarkers) - 1, 1)
               /\ markerCache' = MarkerCacheDelta(markerCache, newMarker, 1)
               /\ log' = Recorded(recordAdd(log, newMarker))
               /\ Commit("Add", nextId)
               /\ resp' = Response(req, "ok")
               /\ UNCHANGED <<inflight, purged, config, boot, serverUp, running,
                   breakdown, listing>>

\* CoreCommands.editMarker up to QueryManager.editMarker: the plan, or the
\* error thrown.
EditPlanOf(d, markerId, startMs, endMs) ==
    LET currentMarker == getSingleMarker(d, markerId)
        allMarkers == getEpisodeMarkers(d, currentMarker.pid)
    IN IF checkMarkerBounds(startMs, endMs) # "ok"
       THEN [err |-> checkMarkerBounds(startMs, endMs), newIndex |-> 0,
             writes |-> {}]
       ELSE IF markerId \notin DOMAIN d
       THEN [err |-> "NotFound", newIndex |-> 0, writes |-> {}]
       ELSE EditPlan(allMarkers, currentMarker.index, markerId,
                     startMs, endMs)

EditOutcome(d, markerId, startMs, endMs) ==
    EditPlanOf(d, markerId, startMs, endMs).err

\* CoreCommands.editMarker, answering request req.
EditMarkerFor(req, markerId, startMs, endMs) ==
    LET plan == EditPlanOf(db, markerId, startMs, endMs)
        currentMarker == getSingleMarker(db, markerId)
        newMarker == [currentMarker EXCEPT !.start = startMs, !.end = endMs]
    IN IF plan.err # "ok"
       THEN Reply(req, plan.err)
       ELSE \/ WriteFails(req, newMarker)
            \/ /\ Len(commits) < MaxOps
               /\ db' = EditApply(db, markerId, plan.newIndex, startMs, endMs)
               /\ inflight' = inflight \cup plan.writes
               /\ log' = Recorded(recordEdit(log, newMarker))
               /\ Commit("Edit", markerId)
               /\ resp' = Response(req, "ok")
               /\ UNCHANGED <<nextId, legacyCache, markerCache, purged,
                              config, boot, serverUp, running,
                   breakdown, listing>>

\* An edit request with id, start and end.
EditMarker(markerId, startMs, endMs) ==
    EditMarkerFor(Request("edit", markerId, startMs, endMs),
                  markerId, startMs, endMs)

\* An edit request as the tests send it, with type and final: the handler
\* takes id, start, end (and userCreated) and nothing else.
EditEndpoint(markerId, startMs, endMs, type, final) ==
    EditMarkerFor(TypedRequest("edit", markerId, startMs, endMs, type, final),
                  markerId, startMs, endMs)

DeleteOutcome(d, markerId) ==
    IF markerId \notin DOMAIN d THEN "NotFound" ELSE "ok"

\* CoreCommands.deleteMarker
DeleteMarker(markerId) ==
    LET req == Request("delete", markerId, 0, 0)
        markerToDelete == getSingleMarker(db, markerId)
        allMarkers == getEpisodeMarkers(db, markerToDelete.pid)
        plan == DeletePlan(allMarkers, markerId)
    IN IF DeleteOutcome(db, markerId) # "ok"
       THEN Reply(req, DeleteOutcome(db, markerId))
       ELSE \/ WriteFails(req, markerToDelete)
            \/ /\ Len(commits) < MaxOps
               /\ db' = DeleteApply(db, markerId)
               /\ inflight' = inflight \cup plan.writes
               /\ markerCache' =
                     MarkerCacheDelta(markerCache, markerToDelete, 0 - 1)
               /\ legacyCache' =
                     LegacyUpdate(legacyCache, Len(allMarkers), 0 - 1)
               /\ log' = Recorded(recordDelete(log, markerToDelete))
               /\ Commit("Delete", markerId)
               /\ resp' = Response(req, "ok")
               /\ UNCHANGED <<nextId, purged, config, boot, serverUp, running,
                   breakdown, listing>>

\* The library DB executes one of the index updates that are in flight.
ApplyIndexWrite ==
    \E w \in inflight :
        /\ db' = updateMarkerIndex(db, w.id, w.index)
        /\ inflight' = inflight \ {w}
        /\ UNCHANGED <<nextId, legacyCache, markerCache, log, purged,
                       commits, before, config, boot, serverUp, running, resp,
                   breakdown, listing>>

\* One of the index updates in flight fails; nobody awaits its result.
FailIndexWrite ==
    \E w \in inflight :
        /\ inflight' = inflight \ {w}
        /\ UNCHANGED <<db, nextId, legacyCache, markerCache, log, purged,
                       commits, before, config, boot, serverUp, running, resp,
                   breakdown, listing>>

\* allStats (get_stats)
AllStats ==
    LET req == Request("get_stats", 0, 0, 0)
    IN IF config.extendedMarkerStats /\ ~markerCache.built
       THEN Reply(req, "TypeError")
       ELSE IF config.extendedMarkerStats THEN Reply(req, "ok")
       ELSE IF legacyCache.built THEN Reply(req, "ok")
       ELSE \/ Reply(req, "StatsFailed")
            \/ /\ legacyCache' = [built |-> TRUE, map |-> LiveScan(db)]
               /\ resp' = Response(req, "ok")
               /\ before' = NoSnapshot
               /\ UNCHANGED <<db, nextId, inflight, markerCache, log, purged,
                              commits, config, boot, serverUp, running,
                   breakdown, listing>>

\* purgeCheck (purge_check): reconcile the log with the library DB for the
\* items below the root.
PurgeCheck(metadataId) ==
    LET req == Request("purge_check", metadataId, 0, 0)
    IN IF ~config.backupActions THEN Reply(req, "Disabled")
       ELSE \/ Reply(req, "DbError")
            \/ /\ purged' =
                    {e \in purged : e.pid \notin EpisodesUnder(metadataId)}
                    \cup {e \in PurgeCandidates(log, db) :
                            e.pid \in EpisodesUnder(metadataId)}
               /\ resp' = [Response(req, "ok") EXCEPT
                              !.markers =
                                  {e.id : e \in
                                      {c \in PurgeCandidates(log, db) :
                                          c.pid \in
                                              EpisodesUnder(metadataId)}}]
               /\ UNCHANGED <<db, nextId, inflight, legacyCache, markerCache,
                              log, commits, before, config, boot, serverUp, running,
                   breakdown, listing>>

\* BackupManager.restoreMarker up to the insert: the purged marker must be
\* in the index and must pass the checks of the add path.
RestoreOutcome(d, idx, oldMarkerId) ==
    LET found == {e \in idx : e.id = oldMarkerId}
        old == CHOOSE e \in found : TRUE
    IN IF found = {} THEN "NotFound"
       ELSE AddCheck(d, old.pid, old.start, old.end)

\* restoreMarker that drops the marker from the index when the restore
\* fails.
RestoreMarkerForgets(oldMarkerId) ==
    LET req == Request("restore", oldMarkerId, 0, 0)
        found == {e \in purged : e.id = oldMarkerId}
    IN IF ~config.backupActions THEN Reply(req, "Disabled")
       ELSE /\ purged' = purged \ found
            /\ resp' = Response(req, "RestoreFailed")
            /\ UNCHANGED <<db, nextId, inflight, legacyCache, markerCache,
                           log, commits, before, config, boot, serverUp,
                           running,
                   breakdown, listing>>

\* restoreMarker (restore)
RestoreMarker(oldMarkerId) ==
    LET req == Request("restore", oldMarkerId, 0, 0)
        found == {e \in purged : e.id = oldMarkerId}
        old == CHOOSE e \in found : TRUE
        added == AddApply(db, nextId, old.pid, old.start, old.end, old.type)
        newDb == [added EXCEPT ![nextId].final = old.final]
        restoredMarker == Row(newDb, nextId)
    IN IF ~config.backupActions THEN Reply(req, "Disabled")
       ELSE IF RestoreOutcome(db, purged, oldMarkerId) # "ok"
       THEN Reply(req, "RestoreFailed")
       ELSE \/ Reply(req, "RestoreFailed")
            \/ /\ Len(commits) < MaxOps
               /\ db' = newDb
               /\ nextId' = nextId + 1
               /\ log' = recordRestore(log, restoredMarker, oldMarkerId)
               /\ purged' = purged \ found
               /\ markerCache' =
                     MarkerCacheDelta(markerCache, restoredMarker, 1)
               /\ Commit("Restore", nextId)
               /\ resp' = Response(req, "ok")
               /\ UNCHANGED <<inflight, legacyCache, config, boot, serverUp, running,
                   breakdown, listing>>

\* allPurges (all_purges): the purged-marker index as it is.
AllPurges ==
    LET req == Request("all_purges", 0, 0, 0)
    IN IF ~config.backupActions THEN Reply(req, "Disabled")
       ELSE /\ resp' = [Response(req, "ok") EXCEPT
                           !.markers = {e.id : e \in purged}]
            /\ UNCHANGED <<db, nextId, inflight, legacyCache, markerCache,
                           log, purged, commits, before, config, boot, serverUp,
                           running,
                   breakdown, listing>>

\* ignorePurgedMarker that takes the marker out of the index only.
IgnorePurgedMarkerIndexOnly(oldMarkerId) ==
    LET req == Request("ignore_purge", oldMarkerId, 0, 0)
        found == {e \in purged : e.id = oldMarkerId}
    IN IF ~config.backupActions THEN Reply(req, "Disabled")
       ELSE IF found = {} THEN Reply(req, "IgnoreFailed")
       ELSE \/ Reply(req, "IgnoreFailed")
            \/ /\ purged' = purged \ found
               /\ resp' = Response(req, "ok")
               /\ UNCHANGED <<db, nextId, inflight, legacyCache, markerCache,
                              log, commits, before, config, boot, serverUp, running,
                   breakdown, listing>>

\* ignorePurgedMarker (ignore_purge): an Ignore entry is written for the
\* purged marker and the marker leaves the index.
IgnorePurgedMarker(oldMarkerId) ==
    LET req == Request("ignore_purge", oldMarkerId, 0, 0)
        found == {e \in purged : e.id = oldMarkerId}
        old == CHOOSE e \in found : TRUE
    IN IF ~config.backupActions THEN Reply(req, "Disabled")
       ELSE IF found = {} THEN Reply(req, "IgnoreFailed")
       ELSE \/ Reply(req, "IgnoreFailed")
            \/ /\ log' = recordIgnore(log, old)
               /\ purged' = purged \ found
               /\ resp' = Response(req, "ok")
               /\ UNCHANGED <<db, nextId, inflight, legacyCache, markerCache,
                              commits, before, config, boot, serverUp, running,
                   breakdown, listing>>

\* The foreign application drops a marker from the library DB: nothing of
\* the service learns of it.
ForeignRemove(markerId) ==
    /\ markerId \in DOMAIN db
    /\ db' = DeleteApply(db, markerId)
    /\ UNCHANGED <<nextId, inflight, legacyCache, markerCache, log, purged,
                   commits, before, config, boot, serverUp, running, resp,
                   breakdown, listing>>

(***************************************************************************)
(* The shift engine (specification 4.E; its server code is not among the   *)
(* sources).                                                               *)
(***************************************************************************)
\* Deltas a shift request may carry.
Deltas == {0 - 1, 0, 1}

Max(a, b) == IF a >= b THEN a ELSE b
Min(a, b) == IF a <= b THEN a ELSE b

\* Classification of a marker against the deltas.
ShiftClass(m, dStart, dEnd) ==
    LET s == m.start + dStart
        e == m.end + dEnd
    IN IF e <= 0 \/ s >= duration(m.pid) \/ e <= s THEN "Error"
       ELSE IF s < 0 \/ e > duration(m.pid) THEN "Cutoff"
       ELSE "Clean"

\* The markers of the subtree, ignored or not.
RetainedAll(d, rootId, ignoreIds) ==
    {Row(d, id) : id \in {i \in DOMAIN d : d[i].pid \in EpisodesUnder(rootId)}}

\* The markers of the subtree that are not ignored.
Retained(d, rootId, ignoreIds) ==
    {Row(d, id) : id \in {i \in DOMAIN d :
                            /\ d[i].pid \in EpisodesUnder(rootId)
                            /\ i \notin ignoreIds}}

\* The markers a committed shift writes: the retained ones that are no Error.
ShiftWritten(d, rootId, dStart, dEnd, ignoreIds) ==
    {m \in Retained(d, rootId, ignoreIds) :
        ShiftClass(m, dStart, dEnd) # "Error"}

\* The library DB after a shift that writes start' and end' as they are.
ShiftApplyNoClamp(d, rootId, dStart, dEnd, ignoreIds) ==
    LET ids == {m.id : m \in ShiftWritten(d, rootId, dStart, dEnd, ignoreIds)}
    IN [id \in DOMAIN d |->
          IF id \in ids
          THEN [d[id] EXCEPT !.start = d[id].start + dStart,
                             !.end = d[id].end + dEnd]
          ELSE d[id]]

\* The library DB after the shift: the written markers moved and clamped, the
\* markers of their parents re-sorted and re-indexed.
ShiftApply(d, rootId, dStart, dEnd, ignoreIds) ==
    LET ids == {m.id : m \in ShiftWritten(d, rootId, dStart, dEnd, ignoreIds)}
        moved == [id \in DOMAIN d |->
                    IF id \in ids
                    THEN [d[id] EXCEPT
                            !.start = Max(0, d[id].start + dStart),
                            !.end = Min(duration(d[id].pid),
                                        d[id].end + dEnd)]
                    ELSE d[id]]
        parents == {d[id].pid : id \in ids}
        rank(id) ==
            LET s == getEpisodeMarkers(moved, moved[id].pid)
            IN (CHOOSE i \in DOMAIN s : s[i].id = id) - 1
    IN [id \in DOMAIN d |->
          IF moved[id].pid \in parents
          THEN [moved[id] EXCEPT !.index = rank(id)]
          ELSE moved[id]]

\* Two markers of one parent intersect.
HasOverlap(d) ==
    \E a, b \in DOMAIN d :
        /\ a # b
        /\ d[a].pid = d[b].pid
        /\ Intersects(d[a].start, d[a].end, d[b].start, d[b].end)

\* The parents of the subtree with more than one retained marker make a
\* linked conflict.
LinkedConflict(d, rootId, ignoreIds) ==
    \E a, b \in Retained(d, rootId, ignoreIds) : a.id # b.id /\ a.pid = b.pid

\* A retained marker is classified Error.
AnyError(d, rootId, dStart, dEnd, ignoreIds) ==
    \E m \in Retained(d, rootId, ignoreIds) :
        ShiftClass(m, dStart, dEnd) = "Error"

\* The outcome of a shift that never looks for linked conflicts.
ShiftOutcomeNoConflict(d, rootId, dStart, dEnd, force, ignoreIds) ==
    IF dStart = 0 /\ dEnd = 0 THEN "BadRequest"
    ELSE IF rootId \notin Items THEN "BadRequest"
    ELSE IF AnyError(d, rootId, dStart, dEnd, ignoreIds) /\ ~force
    THEN "Overflow"
    ELSE IF HasOverlap(ShiftApply(d, rootId, dStart, dEnd, ignoreIds))
    THEN "Overlap"
    ELSE "ok"

\* The outcome of a shift that never looks for Error markers.
ShiftOutcomeNoOverflow(d, rootId, dStart, dEnd, force, ignoreIds) ==
    IF dStart = 0 /\ dEnd = 0 THEN "BadRequest"
    ELSE IF rootId \notin Items THEN "BadRequest"
    ELSE IF LinkedConflict(d, rootId, ignoreIds) /\ ~force THEN "Conflict"
    ELSE IF HasOverlap(ShiftApply(d, rootId, dStart, dEnd, ignoreIds))
    THEN "Overlap"
    ELSE "ok"

\* The outcome of a shift before it writes.
ShiftOutcome(d, rootId, dStart, dEnd, force, ignoreIds) ==
    LET linked == LinkedConflict(d, rootId, ignoreIds)
        anyError == AnyError(d, rootId, dStart, dEnd, ignoreIds)
    IN IF dStart = 0 /\ dEnd = 0 THEN "BadRequest"
       ELSE IF rootId \notin Items THEN "BadRequest"
       ELSE IF linked /\ ~force THEN "Conflict"
       ELSE IF anyError /\ ~force THEN "Overflow"
       ELSE IF HasOverlap(ShiftApply(d, rootId, dStart, dEnd, ignoreIds))
       THEN "Overlap"
       ELSE "ok"

\* One Edit entry per written marker, in id order.
RECURSIVE recordShift(_, _, _)
recordShift(l, d, ids) ==
    IF ids = {} THEN l
    ELSE LET id == CHOOSE x \in ids : \A y \in ids : x <= y
         IN recordShift(recordEdit(l, Row(d, id)), d, ids \ {id})

\* An applied shift that always reports conflict = false.
AppliedConflictNever(d, rootId, ignoreIds) == FALSE

\* The conflict field of an applied shift: true when the shift was forced over
\* a parent with several retained markers (an unforced shift over one is not
\* applied).
AppliedConflict(d, rootId, ignoreIds) == LinkedConflict(d, rootId, ignoreIds)

\* Shift(rootId, dStart, dEnd, force, ignoreIds), answering the request req.
ShiftFor(req, rootId, dStart, dEnd, force, ignoreIds) ==
    LET outcome == ShiftOutcome(db, rootId, dStart, dEnd, force, ignoreIds)
        newDb == ShiftApply(db, rootId, dStart, dEnd, ignoreIds)
        ids == {m.id : m \in ShiftWritten(db, rootId, dStart, dEnd,
                                          ignoreIds)}
    IN IF outcome # "ok" THEN Reply(req, outcome)
       ELSE \/ Reply(req, "DbError")
            \/ /\ Len(commits) < MaxOps
               /\ db' = newDb
               /\ log' = Recorded(recordShift(log, newDb, ids))
               /\ Commit("Shift", rootId)
               /\ resp' = [Response(req, "ok") EXCEPT
                              !.markers = ids,
                              !.applied = TRUE,
                              !.conflict =
                                  AppliedConflict(db, rootId, ignoreIds)]
               /\ UNCHANGED <<nextId, inflight, legacyCache, markerCache,
                              purged, config, boot, serverUp, running,
                   breakdown, listing>>

Shift(rootId, dStart, dEnd, force, ignoreIds) ==
    ShiftFor(Request("shift", rootId, dStart, dEnd),
             rootId, dStart, dEnd, force, ignoreIds)

\* check_shift that also records the markers it lists as edited.
CheckShiftRecorded(rootId) ==
    LET req == Request("check_shift", rootId, 0, 0)
        ids == {m.id : m \in Retained(db, rootId, {})}
    IN IF rootId \notin Items THEN Reply(req, "BadRequest")
       ELSE /\ resp' = [Response(req, "ok") EXCEPT
                           !.markers = ids,
                           !.conflict = LinkedConflict(db, rootId, {})]
            /\ log' = Recorded(recordShift(log, db, ids))
            /\ UNCHANGED <<db, nextId, inflight, legacyCache, markerCache,
                           purged, commits, before, config, boot, serverUp,
                           running,
                   breakdown, listing>>

\* CheckShift(rootId): the markers of the subtree and whether a parent holds
\* several of them; nothing is written.
CheckShift(rootId) ==
    LET req == Request("check_shift", rootId, 0, 0)
        ids == {m.id : m \in Retained(db, rootId, {})}
    IN IF rootId \notin Items THEN Reply(req, "BadRequest")
       ELSE /\ resp' = [Response(req, "ok") EXCEPT
                           !.markers = ids,
                           !.conflict = LinkedConflict(db, rootId, {})]
            /\ UNCHANGED <<db, nextId, inflight, legacyCache, markerCache,
                           log, purged, commits, before, config, boot, serverUp,
                           running,
                   breakdown, listing>>

\* TestBase.send resolves: the client has the response.
Receive ==
    /\ resp # NoResponse
    /\ resp' = NoResponse
    /\ UNCHANGED <<db, nextId, inflight, legacyCache, markerCache, log,
                   purged, commits, before, config, boot, serverUp, running,
                   breakdown, listing>>

\* The client is not waiting for a response and the server is there to take
\* the next request.
Idle == resp = NoResponse /\ serverUp

\* The requests that change markers: add, edit, delete, restore.
AddRequest ==
    /\ Idle
    /\ \E metadataId \in Items \cup {NoItem}, startMs, endMs \in Times,
          type \in AddTypes :
          AddMarker(metadataId, startMs, endMs, type)

EditRequest ==
    /\ Idle
    /\ \E markerId \in 1..nextId, startMs, endMs \in Times :
          EditMarker(markerId, startMs, endMs)

DeleteRequest ==
    /\ Idle
    /\ \E markerId \in 1..nextId : DeleteMarker(markerId)

RestoreRequest ==
    /\ Idle
    /\ \E oldMarkerId \in 1..nextId : RestoreMarker(oldMarkerId)

StatsRequest == Idle /\ AllStats

PurgeCheckRequest ==
    /\ Idle
    /\ \E metadataId \in Items : PurgeCheck(metadataId)

Next ==
    \/ AddRequest
    \/ EditRequest
    \/ DeleteRequest
    \/ RestoreRequest
    \/ StatsRequest
    \/ PurgeCheckRequest
    \/ Receive
    \/ ApplyIndexWrite
    \/ FailIndexWrite

Spec == Init /\ [][Next]_vars

\* The purge reconciler at work: markers are added through the service, the
\* foreign application drops markers the log knows between two requests, and
\* they are looked for, restored and ignored.
ForeignRemoveStep ==
    /\ Idle
    /\ inflight = {}
    /\ \E markerId \in {log[i].id : i \in DOMAIN log} :
          ForeignRemove(markerId)

AllPurgesRequest == Idle /\ AllPurges

IgnoreRequest ==
    /\ Idle
    /\ \E oldMarkerId \in 1..nextId : IgnorePurgedMarker(oldMarkerId)

\* The times of the requests that lie within the item.
ConcTimes == 0..Dur

\* Additions to the episodes, with times inside the episode.
PurgeAddRequest ==
    /\ Idle
    /\ \E metadataId \in Episodes, startMs, endMs \in ConcTimes,
          type \in AddTypes :
          AddMarker(metadataId, startMs, endMs, type)

NextPurge ==
    \/ PurgeAddRequest
    \/ ForeignRemoveStep
    \/ PurgeCheckRequest
    \/ AllPurgesRequest
    \/ RestoreRequest
    \/ IgnoreRequest
    \/ Receive

SpecPurge == Init /\ [][NextPurge]_vars

(***************************************************************************)
(* Startup (run, afterQueryInit, afterMarkerCacheManagerInit): the steps   *)
(* from the start of the process to launchServer, each continued by the    *)
(* callback of the manager it waits for.                                   *)
(***************************************************************************)
\* What no step of the startup sequence touches.
StartupFrame ==
    UNCHANGED <<db, nextId, inflight, legacyCache, log, commits, before,
                running, resp, breakdown, listing>>

\* launchServer: the server starts to listen.
launchServer ==
    /\ boot' = [boot EXCEPT !.pc = "launched", !.launches = @ + 1]
    /\ serverUp' = TRUE

\* An afterQueryInit that launches the server whatever the configuration.
afterQueryInitLaunchesAtOnce ==
    /\ launchServer
    /\ UNCHANGED <<config, markerCache, purged,
                   breakdown, listing>>

\* afterQueryInit: with extended statistics on the marker cache is created
\* and its build is started, else the server is launched at once.
afterQueryInit ==
    /\ IF config.extendedMarkerStats
       THEN /\ boot' = [boot EXCEPT !.pc = "buildCache"]
            /\ UNCHANGED serverUp
       ELSE launchServer
    /\ UNCHANGED <<config, markerCache, purged,
                   breakdown, listing>>

\* run: the query manager is created and verifies the library database.
run ==
    /\ boot.pc = "run"
    /\ boot' = [boot EXCEPT !.pc = "verifyDatabase"]
    /\ UNCHANGED <<config, markerCache, purged, serverUp,
                   breakdown, listing>>
    /\ StartupFrame

\* The callback of the query manager: the database is verified; with the
\* action log on the backup manager is created next.
databaseVerified ==
    /\ boot.pc = "verifyDatabase"
    /\ IF config.backupActions
       THEN /\ boot' = [boot EXCEPT !.pc = "initBackup"]
            /\ UNCHANGED <<config, markerCache, purged, serverUp,
                   breakdown, listing>>
       ELSE afterQueryInit
    /\ StartupFrame

\* The callback of the backup manager.
backupManagerReady ==
    /\ boot.pc = "initBackup"
    /\ afterQueryInit
    /\ StartupFrame

\* afterMarkerCacheManagerInit that launches the server without looking
\* for purged markers.
afterMarkerCacheManagerInitNoPurges ==
    /\ boot.pc = "buildCache"
    /\ markerCache' = BuildMarkerCache(db)
    /\ launchServer
    /\ UNCHANGED <<config, purged,
                   breakdown, listing>>
    /\ StartupFrame

\* afterMarkerCacheManagerInit: the marker cache is built; with the action
\* log on the purged markers are looked for next.
afterMarkerCacheManagerInit ==
    /\ boot.pc = "buildCache"
    /\ markerCache' = BuildMarkerCache(db)
    /\ IF config.backupActions
       THEN /\ boot' = [boot EXCEPT !.pc = "buildAllPurges"]
            /\ UNCHANGED serverUp
       ELSE launchServer
    /\ UNCHANGED <<config, purged,
                   breakdown, listing>>
    /\ StartupFrame

\* A failure callback of buildCache that leaves the configuration as it is.
buildCacheFailedStillEnabled ==
    /\ boot.pc = "buildCache"
    /\ markerCache' = NullMarkerCache
    /\ boot' = [pc |-> "launched", launches |-> boot.launches + 1,
                cacheFailed |-> TRUE]
    /\ serverUp' = TRUE
    /\ UNCHANGED <<config, purged,
                   breakdown, listing>>
    /\ StartupFrame

\* The failure callback of buildCache: extended statistics are switched
\* off, the cache is dropped and the server is launched.
buildCacheFailed ==
    /\ boot.pc = "buildCache"
    /\ config' = [config EXCEPT !.extendedMarkerStats = FALSE]
    /\ markerCache' = NullMarkerCache
    /\ boot' = [pc |-> "launched", launches |-> boot.launches + 1,
                cacheFailed |-> TRUE]
    /\ serverUp' = TRUE
    /\ UNCHANGED purged
    /\ StartupFrame

\* The callback of buildAllPurges: an error is logged only; the server is
\* launched in both cases.
buildAllPurgesDone ==
    /\ boot.pc = "buildAllPurges"
    /\ purged' \in {PurgeCandidates(log, db), {}}
    /\ launchServer
    /\ UNCHANGED <<config, markerCache,
                   breakdown, listing>>
    /\ StartupFrame

\* The process has been started: nothing is initialized but the
\* configuration and what is on disk.
InitBoot ==
    /\ db = InitDb
    /\ nextId = 4
    /\ inflight = {}
    /\ config \in [backupActions : BOOLEAN, extendedMarkerStats : BOOLEAN]
    /\ legacyCache = [built |-> FALSE, map |-> EmptyMap]
    /\ markerCache = NullMarkerCache
    /\ log = IF config.backupActions THEN InitLog ELSE <<>>
    /\ purged = {}
    /\ commits = <<>>
    /\ resp = NoResponse
    /\ running = [c \in Clients |-> NoHandler]
    /\ serverUp = FALSE
    /\ boot = [pc |-> "run", launches |-> 0, cacheFailed |-> FALSE]
    /\ breakdown = NoBreakdown
    /\ listing = NoListing
    /\ before = NoSnapshot

NextStartup ==
    \/ run
    \/ databaseVerified
    \/ backupManagerReady
    \/ afterMarkerCacheManagerInit
    \/ buildCacheFailed
    \/ buildAllPurgesDone
    \/ PurgeAddRequest
    \/ StatsRequest
    \/ PurgeCheckRequest
    \/ AllPurgesRequest
    \/ Receive

SpecStartup == InitBoot /\ [][NextStartup]_vars

(***************************************************************************)
(* Suspend and resume (specification 5; the server side is not among the   *)
(* sources).  The test harness suspends the server after a test and        *)
(* resumes it before the next one; boot.pc is the lifecycle state:         *)
(* "launched" is Running.                                                  *)
(***************************************************************************)
\* A mutating request that reaches the suspended service.
Unavailable(req) == Reply(req, "Unavailable")

\* TestBase.suspend: the request arrives at the running service; the
\* harness awaits its answer.
SuspendArrives ==
    /\ Idle
    /\ boot.pc = "launched"
    /\ boot' = [boot EXCEPT !.pc = "suspending"]
    /\ UNCHANGED <<db, nextId, inflight, legacyCache, markerCache, log,
                   purged, commits, before, config, serverUp, running, resp,
                   breakdown, listing>>

\* A suspend that closes the handles at once.
SuspendCompletesAtOnce ==
    /\ boot.pc = "suspending"
    /\ boot' = [boot EXCEPT !.pc = "suspended"]
    /\ resp' = Response(Request("suspend", 0, 0, 0), "ok")
    /\ UNCHANGED <<db, nextId, inflight, legacyCache, markerCache, log,
                   purged, commits, before, config, serverUp, running,
                   breakdown, listing>>

\* Suspend waits for the transactions in flight, closes the handles and
\* answers.
SuspendCompletes ==
    /\ boot.pc = "suspending"
    /\ inflight = {}
    /\ boot' = [boot EXCEPT !.pc = "suspended"]
    /\ resp' = Response(Request("suspend", 0, 0, 0), "ok")
    /\ UNCHANGED <<db, nextId, inflight, legacyCache, markerCache, log,
                   purged, commits, before, config, serverUp, running,
                   breakdown, listing>>

\* TestBase.resume: sent only when the server is suspended.
ResumeRequest ==
    /\ Idle
    /\ boot.pc = "suspended"
    /\ boot' = [boot EXCEPT !.pc = "launched"]
    /\ resp' = Response(Request("resume", 0, 0, 0), "ok")
    /\ UNCHANGED <<db, nextId, inflight, legacyCache, markerCache, log,
                   purged, commits, before, config, serverUp, running,
                   breakdown, listing>>

\* The mutating requests of a test, sent while no suspend is awaited.
SuspendableAddRequest ==
    /\ Idle
    /\ boot.pc # "suspending"
    /\ \E metadataId \in Episodes, startMs, endMs \in ConcTimes,
          type \in AddTypes :
          IF boot.pc = "suspended"
          THEN Unavailable(Request("add", metadataId, startMs, endMs))
          ELSE AddMarker(metadataId, startMs, endMs, type)

SuspendableEditRequest ==
    /\ Idle
    /\ boot.pc # "suspending"
    /\ \E markerId \in DOMAIN db, startMs, endMs \in ConcTimes :
          IF boot.pc = "suspended"
          THEN Unavailable(Request("edit", markerId, startMs, endMs))
          ELSE EditMarker(markerId, startMs, endMs)

SuspendableDeleteRequest ==
    /\ Idle
    /\ boot.pc # "suspending"
    /\ \E markerId \in DOMAIN db :
          IF boot.pc = "suspended"
          THEN Unavailable(Request("delete", markerId, 0, 0))
          ELSE DeleteMarker(markerId)

NextSuspend ==
    \/ SuspendableAddRequest
    \/ SuspendableEditRequest
    \/ SuspendableDeleteRequest
    \/ ApplyIndexWrite
    \/ FailIndexWrite
    \/ SuspendArrives
    \/ SuspendCompletes
    \/ ResumeRequest
    \/ Receive

SpecSuspend == Init /\ [][NextSuspend]_vars

(***************************************************************************)
(* MarkerBreakdown (src/Shared/MarkerBreakdown.js): one object, from its   *)
(* construction on, and the packed bucket key of one item, which is        *)
(* followed next to the numbers of markers the item really has.            *)
(***************************************************************************)
MaxItems == 2
MaxMarkers == 2
MaxMoves == 2
IntroMask == 65535

\* #ic and #cc: the intro and the credits count of a key.
ic(v) == v % (IntroMask + 1)
cc(v) == v \div (2 ^ CreditsShift)

\* MarkerBreakdown.markerCountFromKey
markerCountFromKey(key) == cc(key) + ic(key)

\* The sum of the values of #counts: totalItems(); NaN if a value is NaN.
RECURSIVE SumOver(_, _)
SumOver(m, keys) ==
    IF keys = {} THEN 0
    ELSE LET k == CHOOSE x \in keys : TRUE
         IN m.counts[k] + SumOver(m, keys \ {k})

totalItemsIsNaN(m) == m.nan # {}
totalItems(m) == SumOver(m, DOMAIN m.counts)

\* new MarkerBreakdown(): #counts = { 0 : 0 }
NewCounts == Put(EmptyMap, 0, 0)

\* initBase(): ++this.#counts[0]
initBase ==
    /\ breakdown.inits < MaxItems
    /\ breakdown' = [breakdown EXCEPT !.counts = Bump(@, 0, 1),
                                      !.inits = @ + 1,
                                      !.last = "initBase"]

\* delta(oldBucket, delta) for an item of a bucket that holds at least one
\* item, which gains or loses one marker of a type.
delta ==
    \E oldBucket \in DOMAIN breakdown.counts.counts, by \in {0 - 1, 1},
       markerType \in {"intro", "credits"} :
       /\ oldBucket \notin breakdown.counts.nan
       /\ breakdown.counts.counts[oldBucket] >= 1
       /\ by = 0 - 1 => IF markerType = "intro" THEN ic(oldBucket) > 0
                                                ELSE cc(oldBucket) > 0
       /\ markerCountFromKey(oldBucket + deltaFromType(by, markerType))
             <= MaxMarkers
       /\ breakdown' =
             [breakdown EXCEPT
                !.counts = BreakdownDelta(@, oldBucket,
                                          deltaFromType(by, markerType)),
                !.last = "delta"]

\* data(): minifies, then copies.
data ==
    /\ breakdown.last # "data"
    /\ breakdown' = [breakdown EXCEPT !.counts = Minify(@), !.last = "data"]

\* collapsedBuckets(): minifies when it has met a value 0.
collapsedBuckets ==
    /\ breakdown.last # "collapsedBuckets"
    /\ breakdown' =
          [breakdown EXCEPT
             !.counts =
                 IF \E k \in DOMAIN @.counts :
                       k \notin @.nan /\ @.counts[k] = 0
                 THEN Minify(@) ELSE @,
             !.last = "collapsedBuckets"]

\* The followed item gains or loses a marker of a type: its key moves by
\* deltaFromType, the numbers of its markers by one.  The key stays within
\* 0 .. 2^31 - 1, the keys that >> and & read as they are.
moveItem ==
    \E by \in {0 - 1, 1}, markerType \in MarkerTypes :
       /\ breakdown.moves < MaxMoves
       /\ by = 0 - 1 =>
             IF markerType = "intro" THEN breakdown.intros > 0
             ELSE IF markerType = "credits" THEN breakdown.credits > 0
             ELSE breakdown.commercials > 0
       /\ by = 1 /\ markerType = "credits" =>
             cc(breakdown.bucket) < (2 ^ (CreditsShift - 1)) - 1
       /\ by = 1 /\ markerType # "credits" =>
             breakdown.bucket < (2 ^ 30) + ((2 ^ 30) - 1)
       /\ breakdown.bucket + deltaFromType(by, markerType) >= 0
       /\ breakdown' =
             [breakdown EXCEPT
                !.bucket = @ + deltaFromType(by, markerType),
                !.intros = IF markerType = "intro" THEN @ + by ELSE @,
                !.credits = IF markerType = "credits" THEN @ + by ELSE @,
                !.commercials =
                    IF markerType = "commercial" THEN @ + by ELSE @,
                !.moves = @ + 1,
                !.last = markerType]

BreakdownFrame ==
    UNCHANGED <<db, nextId, inflight, legacyCache, markerCache, log, purged,
                commits, before, config, boot, serverUp, running, resp,
                listing>>

\* The numbers of intros and of credits an item starts with: the ends and
\* the middle of 0 .. 2^16 - 1 and of 0 .. 2^15 - 1.
IntroCounts == {0, 1, 2, IntroMask - 1, IntroMask}
CreditsCounts ==
    {0, 1, (2 ^ (CreditsShift - 1)) - 2, (2 ^ (CreditsShift - 1)) - 1}

InitBreakdown ==
    /\ db = InitDb
    /\ nextId = 4
    /\ inflight = {}
    /\ config = [backupActions |-> FALSE, extendedMarkerStats |-> FALSE]
    /\ legacyCache = [built |-> FALSE, map |-> EmptyMap]
    /\ markerCache = NullMarkerCache
    /\ log = <<>>
    /\ purged = {}
    /\ commits = <<>>
    /\ resp = NoResponse
    /\ running = [c \in Clients |-> NoHandler]
    /\ serverUp = TRUE
    /\ boot = Launched
    /\ before = NoSnapshot
    /\ listing = NoListing
    /\ \E i \in IntroCounts, c \in CreditsCounts :
          breakdown = [NoBreakdown EXCEPT
                          !.counts = NewCounts,
                          !.bucket = keyFromMarkerCount(i, c),
                          !.intros = i,
                          !.credits = c]

NextBreakdown ==
    \/ initBase /\ BreakdownFrame
    \/ delta /\ BreakdownFrame
    \/ data /\ BreakdownFrame
    \/ collapsedBuckets /\ BreakdownFrame
    \/ moveItem /\ BreakdownFrame

SpecBreakdown == InitBreakdown /\ [][NextBreakdown]_vars

(***************************************************************************)
(* Edits around the foreign application: markers are added and edited      *)
(* through the service, the foreign application drops any marker between   *)
(* two requests; every index update that is issued is executed.            *)
(***************************************************************************)
ForeignWipeStep ==
    /\ Idle
    /\ inflight = {}
    /\ \E markerId \in DOMAIN db : ForeignRemove(markerId)

NextForeign ==
    \/ PurgeAddRequest
    \/ EditRequest
    \/ ForeignWipeStep
    \/ ApplyIndexWrite
    \/ Receive

\* The action log and the extended statistics are off: they have no part in
\* an edit's reasoning about indices.
InitForeign ==
    /\ Init
    /\ ~config.backupActions
    /\ ~config.extendedMarkerStats

SpecForeign == InitForeign /\ [][NextForeign]_vars

(***************************************************************************)
(* get_episodes (src/unnamed/part_001:596-633): the callback of            *)
(* QueryManager.getEpisodes and the callbacks of its thumbnail checks.     *)
(* listing holds the locals of one request: waitingFor, episodes (the      *)
(* hasThumbnails field of each EpisodeData, "undefined" until it is set),  *)
(* the checks that have not settled, and what was sent.                    *)
(***************************************************************************)
MaxEpisodes == 3
MaxListings == 2

\* jsonSuccess(res, episodes) / jsonError(res, 400, ...): one more response.
SendEpisodes(l, code) ==
    [l EXCEPT !.responses = @ + 1, !.code = code, !.sent = l.episodes,
              !.pc = "sent"]

\* The callback of QueryManager.getEpisodes, with its forEach loop: the
\* thumbnail checks are started, their callbacks run later.
getEpisodes ==
    /\ listing.pc = "none"
    /\ listing.served < MaxListings
    /\ \E err \in BOOLEAN, rows \in 0..MaxEpisodes, thumbs \in BOOLEAN :
          LET l == [listing EXCEPT
                       !.pc = "waiting",
                       !.useThumbnails = thumbs,
                       !.waitingFor = rows,
                       !.episodes = [i \in 1..rows |-> "undefined"],
                       !.pending = IF thumbs THEN 1..rows ELSE {}]
          IN listing' =
                IF err
                THEN SendEpisodes([listing EXCEPT !.useThumbnails = thumbs],
                                  400)
                ELSE IF ~thumbs THEN SendEpisodes(l, 200)
                ELSE l

\* The .then callback of Thumbnails.hasThumbnails for the episode at index.
hasThumbnailsResolved ==
    \E index \in listing.pending, hasThumbs \in {"true", "false"} :
       LET l == [listing EXCEPT !.episodes[index] = hasThumbs,
                                !.waitingFor = @ - 1,
                                !.pending = @ \ {index}]
       IN listing' = IF l.waitingFor = 0 THEN SendEpisodes(l, 200) ELSE l

\* The .catch callback: the response is sent before hasThumbnails is set.
hasThumbnailsRejected ==
    \E index \in listing.pending :
       LET l == [listing EXCEPT !.waitingFor = @ - 1,
                                !.pending = @ \ {index}]
       IN listing' = IF l.waitingFor = 0 THEN SendEpisodes(l, 200)
                     ELSE [l EXCEPT !.episodes[index] = "false"]

\* The client has its response: the next request can be looked at.
listingDone ==
    /\ listing.pc = "sent"
    /\ listing' = [NoListing EXCEPT !.served = listing.served + 1]

EpisodesFrame ==
    UNCHANGED <<db, nextId, inflight, legacyCache, markerCache, log, purged,
                commits, before, config, boot, serverUp, running, resp,
                breakdown>>

InitEpisodes ==
    /\ db = InitDb
    /\ nextId = 4
    /\ inflight = {}
    /\ config = [backupActions |-> FALSE, extendedMarkerStats |-> FALSE]
    /\ legacyCache = [built |-> FALSE, map |-> EmptyMap]
    /\ markerCache = NullMarkerCache
    /\ log = <<>>
    /\ purged = {}
    /\ commits = <<>>
    /\ resp = NoResponse
    /\ running = [c \in Clients |-> NoHandler]
    /\ serverUp = TRUE
    /\ boot = Launched
    /\ before = NoSnapshot
    /\ breakdown = NoBreakdown
    /\ listing = NoListing

NextEpisodes ==
    \/ getEpisodes /\ EpisodesFrame
    \/ hasThumbnailsResolved /\ EpisodesFrame
    \/ hasThumbnailsRejected /\ EpisodesFrame
    \/ listingDone /\ EpisodesFrame

SpecEpisodes == InitEpisodes /\ [][NextEpisodes]_vars

\* The marker mutations with shift requests; a shift ignores at most one
\* marker.
ShiftRequest ==
    /\ Idle
    /\ \E rootId \in Items \cup {NoItem}, dStart, dEnd \in Deltas,
          force \in BOOLEAN,
          ignoreIds \in {{}} \cup {{i} : i \in DOMAIN db} :
          Shift(rootId, dStart, dEnd, force, ignoreIds)

NextFull ==
    \/ AddRequest
    \/ EditRequest
    \/ DeleteRequest
    \/ RestoreRequest
    \/ ShiftRequest
    \/ Receive
    \/ ApplyIndexWrite
    \/ FailIndexWrite

SpecFull == Init /\ [][NextFull]_vars

\* Adds, and edits that carry a type and a final flag.  No such sequence
\* reorders the markers of an item, so no index update is ever in flight.
TypedEditRequest ==
    /\ Idle
    /\ \E markerId \in 1..nextId, startMs, endMs \in Times,
          type \in MarkerTypes, final \in BOOLEAN :
          EditEndpoint(markerId, startMs, endMs, type, final)

NextTyped ==
    \/ AddRequest
    \/ TypedEditRequest
    \/ Receive

SpecTyped == Init /\ [][NextTyped]_vars

(***************************************************************************)
(* The bulk shift dialog of the client (BulkShiftOverlay, BulkShiftRow).   *)
(* The table of the dialog has one row per marker of the subtree whose     *)
(* type is the selected one; the user checks and unchecks rows.            *)
(***************************************************************************)
\* The shift values a request or the dialog can carry.
ShiftDeltas == (0 - MaxShift)..MaxShift

\* timeToMs of an input that cannot be parsed: a value no shift has.
NaN == MaxShift + 1
isNaN(v) == v = NaN

\* v || 0 for a shift value.
OrZero(v) == IF isNaN(v) \/ v = 0 THEN 0 ELSE v

\* The marker types of the dialog's markerTypeSelect.
TypeSelections == {"both", "intro", "credits"}

\* BulkShiftRow.update for an enabled row: isError, isCutoff (isWarn) or
\* neither.
BulkShiftRowClass(marker, startShift, endShift) ==
    LET start == marker.start + startShift
        end == marker.end + endShift
        maxDuration == duration(marker.pid)
    IN IF end < 0 \/ start > maxDuration \/ end <= start THEN "Error"
       ELSE IF start < 0 \/ end > maxDuration THEN "Cutoff"
       ELSE "Clean"

\* BulkShiftRow.update: the new start and end the row displays.
BulkShiftRowPreview(marker, startShift, endShift) ==
    LET start == marker.start + startShift
        end == marker.end + endShift
        maxDuration == duration(marker.pid)
    IN [start |-> Max(0, Min(start, maxDuration)),
        end |-> Max(0, Min(end, maxDuration))]

\* showCustomizeTable: the markers that get a row.
TableRows(d, rootId, markerTypeSelected) ==
    {m \in Retained(d, rootId, {}) :
        markerTypeSelected = "both" \/ m.type = markerTypeSelected}

\* showCustomizeTable: the markers of the subtree that get no row.
markersWithoutRows(d, rootId, markerTypeSelected) ==
    {m.id : m \in Retained(d, rootId, {})
                    \ TableRows(d, rootId, markerTypeSelected)}

\* getIgnored without the rows that are in error: the unchecked rows and the
\* markers without rows.
getIgnoredUncheckedOnly(d, rootId, startShift, endShift, tableVisible, markerTypeSelected, enabled) ==
    LET rows == TableRows(d, rootId, markerTypeSelected)
        on == {m \in rows : m.id \in enabled}
        class(m) ==
            BulkShiftRowClass(m, OrZero(startShift), OrZero(endShift))
    IN IF ~tableVisible
       THEN [ignored |-> {}, hasUnresolved |-> FALSE, hasCutoff |-> FALSE,
             hasError |-> FALSE]
       ELSE [ignored |->
                {m.id : m \in rows \ on}
                \cup markersWithoutRows(d, rootId, markerTypeSelected),
             hasUnresolved |-> FALSE,
             hasCutoff |-> \E m \in on : class(m) = "Cutoff",
             hasError |-> \E m \in on : class(m) = "Error"]

\* BulkShiftOverlay.getIgnored: the ignore list and the flags of the table.
\* enabled holds the ids of the checked rows.
getIgnored(d, rootId, startShift, endShift, tableVisible, markerTypeSelected, enabled) ==
    LET rows == TableRows(d, rootId, markerTypeSelected)
        on == {m \in rows : m.id \in enabled}
        class(m) ==
            BulkShiftRowClass(m, OrZero(startShift), OrZero(endShift))
        linked(m) == \E o \in rows : o.id # m.id /\ o.pid = m.pid
        unresolved(m) == linked(m) /\ ~\E o \in on : o.pid = m.pid
    IN IF ~tableVisible
       THEN [ignored |-> {}, hasUnresolved |-> FALSE, hasCutoff |-> FALSE,
             hasError |-> FALSE]
       ELSE [ignored |->
                {m.id : m \in rows \ on}
                \cup {m.id : m \in {r \in on : class(r) = "Error"}}
                \cup markersWithoutRows(d, rootId, markerTypeSelected),
             hasUnresolved |-> \E m \in rows : unresolved(m),
             hasCutoff |-> \E m \in on : class(m) = "Cutoff",
             hasError |-> \E m \in on : class(m) = "Error"]

\* The request the dialog sends: it carries the selected marker type when
\* the table is showing, and "noTable" when it is not.
DialogRequest(rootId, startShift, endShift, force, tableVisible, markerTypeSelected, ignored) ==
    FullRequest("shift", rootId, startShift, endShift,
                IF tableVisible THEN markerTypeSelected ELSE "noTable", FALSE,
                force, ignored)

\* The tests of tryApply without the one for rows that are cut off.
tryApplySendsThroughCutoff(rootId, startShift, endShift, tableVisible, markerTypeSelected, enabled) ==
    LET ignoreInfo == getIgnored(db, rootId, startShift, endShift,
                                 tableVisible, markerTypeSelected, enabled)
    IN /\ ~(isNaN(startShift) \/ isNaN(endShift)
            \/ (startShift = 0 /\ endShift = 0))
       /\ ~ignoreInfo.hasUnresolved
       /\ ~ignoreInfo.hasError

\* The tests tryApply makes before it sends: none of its early returns is
\* taken.
tryApplySends(rootId, startShift, endShift, tableVisible, markerTypeSelected, enabled) ==
    LET ignoreInfo == getIgnored(db, rootId, startShift, endShift,
                                 tableVisible, markerTypeSelected, enabled)
    IN /\ ~(isNaN(startShift) \/ isNaN(endShift)
            \/ (startShift = 0 /\ endShift = 0))
       /\ ~ignoreInfo.hasUnresolved
       /\ ~ignoreInfo.hasCutoff
       /\ ~ignoreInfo.hasError

\* BulkShiftOverlay.tryApply: sends nothing for a shift that is NaN or zero,
\* or while the table has unresolved, cut off or error rows.
tryApply(rootId, startShift, endShift, tableVisible, markerTypeSelected, enabled) ==
    LET ignoreInfo == getIgnored(db, rootId, startShift, endShift,
                                 tableVisible, markerTypeSelected, enabled)
    IN /\ tryApplySends(rootId, startShift, endShift, tableVisible,
                        markerTypeSelected, enabled)
       /\ ShiftFor(DialogRequest(rootId, startShift, endShift, FALSE,
                                 tableVisible, markerTypeSelected,
                                 ignoreInfo.ignored),
                   rootId, startShift, endShift, FALSE, ignoreInfo.ignored)

\* BulkShiftOverlay.forceApply: for a shift that is NaN or zero it flashes
\* the button and goes on; it sends the shift whatever the table shows.  The
\* server cannot parse a shift that is NaN.
forceApply(rootId, startShift, endShift, tableVisible, markerTypeSelected, enabled) ==
    LET ignoreInfo == getIgnored(db, rootId, startShift, endShift,
                                 tableVisible, markerTypeSelected, enabled)
        req == DialogRequest(rootId, startShift, endShift, TRUE,
                             tableVisible, markerTypeSelected,
                             ignoreInfo.ignored)
    IN IF isNaN(startShift) \/ isNaN(endShift)
       THEN Reply(req, "BadRequest")
       ELSE ShiftFor(req, rootId, startShift, endShift, TRUE,
                     ignoreInfo.ignored)

\* What the time inputs of the dialog yield.
ShiftInputs == ShiftDeltas \cup {NaN}

\* A shift request as the tests send it: any force flag, any ignore list.
ShiftEndpoint(rootId, dStart, dEnd, force, ignoreIds) ==
    ShiftFor(FullRequest("shift", rootId, dStart, dEnd, "none", FALSE,
                         force, ignoreIds),
             rootId, dStart, dEnd, force, ignoreIds)

ShiftEndpointRequest ==
    /\ Idle
    /\ Len(commits) < MaxOps
    /\ \E rootId \in Items \cup {NoItem}, dStart, dEnd \in ShiftDeltas,
          force \in BOOLEAN,
          ignoreIds \in {{}} \cup {{i} : i \in DOMAIN db} :
          ShiftEndpoint(rootId, dStart, dEnd, force, ignoreIds)

TryApplyRequest ==
    /\ Idle
    /\ Len(commits) < MaxOps
    /\ \E rootId \in Items, startShift, endShift \in ShiftInputs,
          tableVisible \in BOOLEAN, markerTypeSelected \in TypeSelections,
          enabled \in SUBSET DOMAIN db :
          tryApply(rootId, startShift, endShift, tableVisible,
                   markerTypeSelected, enabled)

ForceApplyRequest ==
    /\ Idle
    /\ Len(commits) < MaxOps
    /\ \E rootId \in Items, startShift, endShift \in ShiftInputs,
          tableVisible \in BOOLEAN, markerTypeSelected \in TypeSelections,
          enabled \in SUBSET DOMAIN db :
          forceApply(rootId, startShift, endShift, tableVisible,
                     markerTypeSelected, enabled)

\* The library the shifts start from, as in a season whose episodes hold one
\* and several markers: two adjacent markers on Episode2 and, on Episode1,
\* the marker whose addition the log records.
InitShiftDb ==
    [id \in {1, 2, 3} |->
        IF id = 1
        THEN [pid |-> Episode2, start |-> 0, end |-> 1, index |-> 0,
              type |-> "intro", final |-> FALSE]
        ELSE IF id = 2
        THEN [pid |-> Episode2, start |-> 1, end |-> 2, index |-> 1,
              type |-> "credits", final |-> TRUE]
        ELSE [pid |-> Episode1, start |-> 1, end |-> 2, index |-> 0,
              type |-> "intro", final |-> FALSE]]

\* The addition of marker 3 is the first commit of the behaviour.
InitShift ==
    /\ db = InitShiftDb
    /\ nextId = 4
    /\ inflight = {}
    /\ config \in [backupActions : BOOLEAN, extendedMarkerStats : BOOLEAN]
    /\ legacyCache = [built |-> FALSE, map |-> EmptyMap]
    /\ markerCache = IF config.extendedMarkerStats
                     THEN BuildMarkerCache(InitShiftDb) ELSE NullMarkerCache
    /\ log = IF config.backupActions THEN InitLog ELSE <<>>
    /\ purged \in StartupPurges(config, InitLog, InitShiftDb)
    /\ commits = <<[op |-> "Add", id |-> 3]>>
    /\ resp = NoResponse
    /\ running = [c \in Clients |-> NoHandler]
    /\ serverUp = TRUE
    /\ boot = Launched
    /\ breakdown = NoBreakdown
    /\ listing = NoListing
    /\ before = NoSnapshot

\* check_shift, from the tests and from the dialog (BulkShiftOverlay.check).
CheckShiftRequest ==
    /\ Idle
    /\ \E rootId \in Items \cup {NoItem} : CheckShift(rootId)

\* Shifts, from the endpoint and from the dialog, until MaxOps mutations have
\* committed.  A shift leaves no index update in flight.
NextShift ==
    \/ CheckShiftRequest
    \/ ShiftEndpointRequest
    \/ TryApplyRequest
    \/ ForceApplyRequest
    \/ Receive

SpecShift == InitShift /\ [][NextShift]_vars

(***************************************************************************)
(* The handlers of the server module itself (src/unnamed/part_001):        *)
(* editMarker, addMarker and deleteMarker in callback style, as the        *)
(* endpoint map of that module dispatches them.                            *)
(***************************************************************************)
\* An exception is thrown inside a callback of the database adapter.  When
\* the adapter calls back within the request's call stack, serverMain catches
\* it and answers 500; when it calls back later, the exception is uncaught
\* and the terminate handler exits the process: no response is sent.
CallbackThrows(req) ==
    \/ Reply(req, "TypeError")
    \/ /\ resp' = Response(req, "Crash")
       /\ serverUp' = FALSE
       /\ UNCHANGED <<db, nextId, inflight, legacyCache, markerCache, log,
                      purged, commits, before, config, boot, running,
                   breakdown, listing>>

\* editMarker
LegacyEditMarker(markerId, startMs, endMs) ==
    LET req == Request("edit", markerId, startMs, endMs)
        currentMarker == getSingleMarker(db, markerId)
        allMarkers == getEpisodeMarkers(db, currentMarker.pid)
        plan == EditPlan(allMarkers, currentMarker.index, markerId,
                         startMs, endMs)
        newMarker == [currentMarker EXCEPT !.start = startMs, !.end = endMs]
    IN IF markerId \notin DOMAIN db THEN Reply(req, "NotFound")
       ELSE IF plan.err = "TypeError" THEN CallbackThrows(req)
       ELSE IF plan.err # "ok" THEN Reply(req, plan.err)
       ELSE \/ Reply(req, "EditFailed")
            \/ /\ Len(commits) < MaxOps
               /\ db' = EditApply(db, markerId, plan.newIndex, startMs, endMs)
               /\ inflight' = inflight \cup plan.writes
               /\ log' = Recorded(recordEdit(log, newMarker))
               /\ Commit("Edit", markerId)
               /\ resp' = Response(req, "ok")
               /\ UNCHANGED <<nextId, legacyCache, markerCache, purged,
                              config, boot, serverUp, running,
                   breakdown, listing>>

\* addMarker
LegacyAddMarker(metadataId, startMs, endMs, type) ==
    LET req == Request("add", metadataId, startMs, endMs)
        check == AddCheck(db, metadataId, startMs, endMs)
        newDb == AddApply(db, nextId, metadataId, startMs, endMs, type)
        newMarker == Row(newDb, nextId)
        allMarkers == getEpisodeMarkers(newDb, metadataId)
    IN IF startMs >= endMs THEN Reply(req, "BadRequest")
       ELSE IF check # "ok" THEN Reply(req, check)
       ELSE \/ Reply(req, "DbError")
            \/ /\ Len(commits) < MaxOps
               /\ db' = newDb
               /\ nextId' = nextId + 1
               /\ legacyCache' =
                     LegacyUpdate(legacyCache, Len(allMarkers) - 1, 1)
               /\ markerCache' = MarkerCacheDelta(markerCache, newMarker, 1)
               /\ log' = Recorded(recordAdd(log, newMarker))
               /\ Commit("Add", nextId)
               /\ resp' = Response(req, "ok")
               /\ UNCHANGED <<inflight, purged, config, boot, serverUp, running,
                   breakdown, listing>>

\* deleteMarker
LegacyDeleteMarker(markerId) ==
    LET req == Request("delete", markerId, 0, 0)
        markerToDelete == getSingleMarker(db, markerId)
        allMarkers == getEpisodeMarkers(db, markerToDelete.pid)
        plan == DeletePlan(allMarkers, markerId)
    IN IF markerId \notin DOMAIN db
       THEN \* err is null here: Log.error(err.message, ...) throws
            CallbackThrows(req)
       ELSE \/ Reply(req, "DbError")
            \/ /\ Len(commits) < MaxOps
               /\ db' = DeleteApply(db, markerId)
               /\ inflight' = inflight \cup plan.writes
               /\ markerCache' =
                     MarkerCacheDelta(markerCache, markerToDelete, 0 - 1)
               /\ legacyCache' =
                     LegacyUpdate(legacyCache, Len(allMarkers), 0 - 1)
               /\ log' = Recorded(recordDelete(log, markerToDelete))
               /\ Commit("Delete", markerId)
               /\ resp' = Response(req, "ok")
               /\ UNCHANGED <<nextId, purged, config, boot, serverUp, running,
                   breakdown, listing>>

\* The times of the requests to these handlers lie within the item.
LegacyTimes == 0..Dur

LegacyAddRequest ==
    /\ Idle
    /\ \E metadataId \in Items \cup {NoItem}, startMs, endMs \in LegacyTimes,
          type \in AddTypes :
          LegacyAddMarker(metadataId, startMs, endMs, type)

LegacyEditRequest ==
    /\ Idle
    /\ \E markerId \in 1..nextId, startMs, endMs \in LegacyTimes :
          LegacyEditMarker(markerId, startMs, endMs)

LegacyDeleteRequest ==
    /\ Idle
    /\ \E markerId \in 1..nextId : LegacyDeleteMarker(markerId)

NextLegacy ==
    \/ LegacyAddRequest
    \/ LegacyEditRequest
    \/ LegacyDeleteRequest
    \/ Receive
    \/ ApplyIndexWrite
    \/ FailIndexWrite

SpecLegacy == Init /\ [][NextLegacy]_vars

(***************************************************************************)
(* Properties.                                                             *)
(***************************************************************************)
\* The stored indices of the markers of p are 0..n-1 and ascend with start.
IndexesContiguous(d, p) ==
    LET rows == RowsOf(d, p) IN
    /\ {m.index : m \in rows} = 0..(Cardinality(rows) - 1)
    /\ \A a, b \in rows : a.index < b.index => a.start < b.start

\* Some marker of p other than markerId intersects [s, e) (half-open).
SiblingIntersects(d, p, markerId, s, e) ==
    \E m \in RowsOf(d, p) :
        m.id # markerId /\ Intersects(s, e, m.start, m.end)

\* C1: after any sequence of committed Add, Edit and Delete operations (and
\* once none of their index updates is still in flight) the markers of every
\* parent have the indices 0..n-1, strictly increasing in start.
C1_IndexContiguity ==
    inflight = {} => \A p \in Episodes : IndexesContiguous(db, p)

\* C3: every stored marker satisfies 0 <= start < end <= duration(parent); an
\* Add or Edit whose end is duration + 1 stores nothing.
C3_MarkerBounds ==
    \A id \in DOMAIN db :
        /\ 0 <= db[id].start
        /\ db[id].start < db[id].end
        /\ db[id].end <= duration(db[id].pid)

C6_CacheEqualsRebuild ==
    /\ legacyCache.built =>
          Minify(legacyCache.map) = Minify(LiveScan(db))
    /\ markerCache.built =>
          /\ markerCache.items = BuildMarkerCache(db).items
          /\ Minify(markerCache.map) = Minify(BuildMarkerCache(db).map)

\* The step is the handling of a request to endpoint op, up to its response.
Handled(op) == Idle /\ resp'.op = op

\* C9: an Edit of a well-formed interval is rejected with Overlap exactly
\* when the interval intersects a sibling as a half-open interval; one that
\* only touches a sibling is accepted.  The same for Add.
C9_HalfOpenOverlap ==
    [][/\ (/\ Handled("edit")
           /\ resp'.id \in DOMAIN db
           /\ 0 <= resp'.start /\ resp'.start < resp'.end
           /\ resp'.end <= Dur)
          => (resp'.kind = "Overlap"
                <=> SiblingIntersects(db, db[resp'.id].pid, resp'.id,
                                      resp'.start, resp'.end))
       /\ (/\ Handled("add")
           /\ resp'.id \in Episodes
           /\ 0 <= resp'.start /\ resp'.start < resp'.end
           /\ resp'.end <= Dur)
          => (resp'.kind = "Overlap"
                <=> SiblingIntersects(db, resp'.id, 0,
                                      resp'.start, resp'.end))
      ]_vars

\* C10: Add and Edit with start >= end or start < 0 are rejected as a bad
\* request whatever the target is (existing or not), and change neither the
\* library DB, the caches nor the action log.
C10_BadBoundsRejected ==
    [][(/\ Handled("add") \/ Handled("edit")
        /\ (resp'.start >= resp'.end \/ resp'.start < 0))
       => /\ resp'.kind = "BadRequest"
          /\ resp'.code = 400
          /\ UNCHANGED <<db, nextId, inflight, legacyCache, markerCache, log,
                         purged, commits>>
      ]_vars

\* An Add with flipped bounds to an item that does not exist was answered.
C10_Witness ==
    /\ resp.op = "add"
    /\ resp.start > resp.end
    /\ resp.id = NoItem
    /\ resp.kind = "BadRequest"

\* C7: when the library DB write of an Add, Edit or Delete fails, the error
\* is returned and the caches and the action log are as before; the caches
\* and the log change only in a step whose write committed.
C7_FailedWriteLeavesCacheAndLog ==
    [][(Handled("add") \/ Handled("edit") \/ Handled("delete"))
       => /\ resp'.kind = "DbError"
             => /\ resp'.code >= 400
                /\ UNCHANGED <<db, inflight, legacyCache, markerCache, log,
                               commits>>
          /\ (\/ legacyCache' # legacyCache
              \/ markerCache' # markerCache
              \/ log' # log)
             => /\ resp'.kind = "ok"
                /\ Len(commits') = Len(commits) + 1
      ]_vars

\* The write of a Delete failed while the statistics cache was built and the
\* action log was enabled.
C7_Witness ==
    /\ resp.op = "delete"
    /\ resp.kind = "DbError"
    /\ legacyCache.built
    /\ config.backupActions

\* C8: an Edit whose new interval overlaps a sibling fails with Overlap and
\* changes neither the markers, the caches nor the action log.
C8_EditOverlapNoOp ==
    [][(/\ Handled("edit")
        /\ resp'.id \in DOMAIN db
        /\ 0 <= resp'.start /\ resp'.start < resp'.end
        /\ resp'.end <= Dur
        /\ SiblingIntersects(db, db[resp'.id].pid, resp'.id,
                             resp'.start, resp'.end))
       => /\ resp'.kind = "Overlap"
          /\ UNCHANGED <<db, inflight, legacyCache, markerCache, log>>
      ]_vars

\* C11: an Add whose target is a show, a season or no item at all is answered
\* with a client error and creates no marker, changes no cache and writes no
\* log entry.
C11_AddToNonEpisodeFails ==
    [][(Handled("add") /\ resp'.id \notin Episodes)
       => /\ resp'.code = 400
          /\ UNCHANGED <<db, nextId, inflight, legacyCache, markerCache, log,
                         purged, commits>>
      ]_vars

\* An Add of a well-formed interval to the season was refused.
C11_Witness ==
    /\ resp.op = "add"
    /\ resp.id = SeasonId
    /\ 0 <= resp.start /\ resp.start < resp.end /\ resp.end <= Dur
    /\ resp.kind = "BadTarget"

\* C12: an Edit or Delete of a marker id that does not exist is answered
\* with a client error, changes neither the library DB, the caches nor the
\* action log, and the server still serves requests afterwards.
C12_MissingMarkerRejected ==
    [][((Handled("edit") \/ Handled("delete")) /\ resp'.id \notin DOMAIN db)
       => /\ resp'.code = 400
          /\ serverUp'
          /\ UNCHANGED <<db, nextId, inflight, legacyCache, markerCache, log,
                         purged, commits>>
      ]_vars

\* C13: after Adds and Edits every stored marker with final = true has type
\* credits, and an Edit that asks for final = true with a type other than
\* credits applies the new start, end and type and stores final = false.
C13_FinalOnlyOnCredits ==
    [][Handled("edit") /\ resp'.kind = "ok"
       => /\ \A id \in DOMAIN db' : db'[id].final => db'[id].type = "credits"
          /\ (resp'.final /\ resp'.type # "credits")
             => /\ db'[resp'.id].start = resp'.start
                /\ db'[resp'.id].end = resp'.end
                /\ db'[resp'.id].type = resp'.type
                /\ ~db'[resp'.id].final
      ]_vars

\* C14: when an Add is followed by the Delete of the added marker with no
\* mutation in between, then (once no index update is in flight) the markers
\* of the library DB and the statistics caches are as before the Add, and
\* the action log has gained an Add and a Delete entry.
C14_AddDeleteRoundTrip ==
    (before.deleted /\ inflight = {})
    => /\ \A p \in Items : RowsOf(db, p) = RowsOf(before.db, p)
       /\ legacyCache.built = before.legacyCache.built
       /\ Minify(legacyCache.map) = Minify(before.legacyCache.map)
       /\ markerCache.built = before.markerCache.built
       /\ markerCache.items = before.markerCache.items
       /\ Minify(markerCache.map) = Minify(before.markerCache.map)
       /\ config.backupActions
          => /\ Len(log) = Len(before.log) + 2
             /\ SubSeq(log, 1, Len(before.log)) = before.log
             /\ log[Len(log) - 1].op = "Add"
             /\ log[Len(log) - 1].id = before.id
             /\ log[Len(log)].op = "Delete"
             /\ log[Len(log)].id = before.id

\* The markers of a subtree.
RowsOfSubtree(d, rootId) ==
    {Row(d, id) : id \in {i \in DOMAIN d : d[i].pid \in EpisodesUnder(rootId)}}

\* A shift request that passes validation: a known root and a shift that is
\* not (0, 0).
ValidShift(r) ==
    r.op = "shift" /\ r.id \in Items /\ ~(r.start = 0 /\ r.end = 0)

\* C15: a valid shift with force = false over a subtree in which some parent
\* has more than one marker that is not ignored is answered with a conflict
\* (not applied) and changes no marker, no cache entry and no log entry.
C15_LinkedConflictRefused ==
    [][(/\ Handled("shift")
        /\ ValidShift(resp')
        /\ ~resp'.force
        /\ LinkedConflict(db, resp'.id, resp'.ignored))
       => /\ resp'.kind = "Conflict"
          /\ UNCHANGED <<db, nextId, inflight, legacyCache, markerCache, log,
                         purged, commits>>
      ]_vars

\* A shift of the season that ignores nothing has been refused as a conflict:
\* Episode2 holds two markers.
C15_Witness ==
    /\ resp.op = "shift"
    /\ resp.id = SeasonId
    /\ ~resp.force
    /\ resp.ignored = {}
    /\ resp.kind = "Conflict"

(***************************************************************************)
(* Concurrent requests.  Two clients send one request each; the handlers   *)
(* (CoreCommands, src/unnamed/part_002) run on one thread and yield at     *)
(* every await, so their steps interleave: Begin up to the await of        *)
(* getSingleMarker, Load up to the await of the write, Write up to the     *)
(* await of the backup manager, Finish to the response.  addMarker awaits  *)
(* only QueryManager.addMarker and the backup manager.                     *)
\* C16: for every marker and every pair of shift values, the row of the
\* dialog shows the class of the shifted marker: Error exactly when
\* end' <= 0 or start' >= duration or end' <= start', otherwise Cutoff exactly
\* when start' < 0 or end' > duration, otherwise Clean, as the server
\* classifies it.
C16_SameClassification ==
    \A id \in DOMAIN db :
        \A dStart, dEnd \in ShiftDeltas :
            BulkShiftRowClass(Row(db, id), dStart, dEnd)
                = ShiftClass(Row(db, id), dStart, dEnd)

C18_ErrorNeverWritten ==
    [][Handled("shift")
       => /\ resp'.kind = "ok"
             => \A id \in DOMAIN db :
                   ShiftClass(Row(db, id), resp'.start, resp'.end) = "Error"
                   => /\ id \in DOMAIN db'
                      /\ db'[id].start = db[id].start
                      /\ db'[id].end = db[id].end
                      /\ id \notin resp'.markers
          /\ resp'.type \in TypeSelections
             => \A m \in TableRows(db, resp'.id, resp'.type) :
                   BulkShiftRowClass(m, OrZero(resp'.start),
                                     OrZero(resp'.end)) = "Error"
                   => m.id \in resp'.ignored
      ]_vars

\* The dialog has forced a shift of the season by -2 with every row checked:
\* the row of marker 1, which would end at -1, is on the ignore list, and the
\* markers 2 and 3, which would end at 0, were not written.
C18_Witness ==
    /\ resp.op = "shift"
    /\ resp.id = SeasonId
    /\ resp.type = "both"
    /\ resp.force
    /\ resp.start = 0 - 2
    /\ resp.end = 0 - 2
    /\ resp.ignored = {1}
    /\ resp.kind = "ok"
    /\ resp.markers = {}
    /\ db = InitShiftDb

\* C19: an applied shift writes the retained markers that are no Error: a
\* Cutoff marker clamped to [max(0, start'), min(duration, end')], a Clean
\* marker as [start', end'], which is what the row of the dialog previews,
\* so each shifted marker satisfies 0 <= start < end <= duration.
C19_CutoffClamped ==
    [][(Handled("shift") /\ resp'.kind = "ok")
       => /\ resp'.markers =
                {m.id : m \in {r \in Retained(db, resp'.id, resp'.ignored) :
                    ShiftClass(r, resp'.start, resp'.end) # "Error"}}
          /\ \A id \in resp'.markers :
                LET m == Row(db, id)
                    s == m.start + resp'.start
                    e == m.end + resp'.end
                    class == ShiftClass(m, resp'.start, resp'.end)
                    shown == BulkShiftRowPreview(m, resp'.start, resp'.end)
                IN /\ class = "Cutoff"
                      => /\ db'[id].start = Max(0, s)
                         /\ db'[id].end = Min(duration(m.pid), e)
                   /\ class = "Clean"
                      => (db'[id].start = s /\ db'[id].end = e)
                   /\ db'[id].start = shown.start
                   /\ db'[id].end = shown.end
                   /\ 0 <= db'[id].start
                   /\ db'[id].start < db'[id].end
                   /\ db'[id].end <= duration(m.pid)
      ]_vars

\* The marker [1, 2] of Episode1 has been shifted by (-2, -1) and written as
\* [0, 1].
C19_Witness ==
    /\ resp.op = "shift"
    /\ resp.id = Episode1
    /\ resp.start = 0 - 2
    /\ resp.end = 0 - 1
    /\ resp.kind = "ok"
    /\ resp.markers = {3}
    /\ db[3].start = 0
    /\ db[3].end = 1

C21_CheckShiftNeverMutates ==
    [][Handled("check_shift")
       => /\ ~resp'.applied
          /\ UNCHANGED <<db, nextId, inflight, legacyCache, markerCache, log,
                         purged, commits>>
          /\ resp'.id \in Items
             => /\ resp'.kind = "ok"
                /\ resp'.markers = {m.id : m \in RowsOfSubtree(db, resp'.id)}
                /\ resp'.conflict
                      <=> \E p \in EpisodesUnder(resp'.id) :
                             Cardinality(RowsOf(db, p)) > 1
      ]_vars

\* check_shift of Episode2, which holds two markers, has answered.
C21_Witness ==
    /\ resp.op = "check_shift"
    /\ resp.id = Episode2
    /\ resp.kind = "ok"
    /\ resp.conflict
    /\ ~resp.applied
    /\ resp.markers = {1, 2}

C23_InvalidShiftNotSent ==
    [][(Handled("shift") /\ resp'.type \in TypeSelections \cup {"noTable"})
       => /\ ~isNaN(resp'.start)
          /\ ~isNaN(resp'.end)
          /\ ~(resp'.start = 0 /\ resp'.end = 0)
      ]_vars

(***************************************************************************)
(* The purge reconciler (specification 4.F), checked on SpecPurge.         *)
(***************************************************************************)
\* The positions of the log that hold the last known state of a marker the
\* service still answers for: an Add, Edit or Restore entry that no entry of
\* the same restore key follows.
LastKnown(l) ==
    {i \in DOMAIN l :
        /\ l[i].op \in {"Add", "Edit", "Restore"}
        /\ \A j \in DOMAIN l : j > i => l[j].key # l[i].key}

\* The library DB has the marker of a log entry neither by id nor by its
\* fingerprint (parent, start, end, type).
Wiped(d, e) ==
    /\ e.id \notin DOMAIN d
    /\ ~\E m \in RowsOf(d, e.pid) :
          m.start = e.start /\ m.end = e.end /\ m.type = e.type

\* The ids of the markers that a later Restore entry has replaced.
RestoredIds(l) ==
    {l[i].id : i \in {k \in DOMAIN l :
                        \E j \in DOMAIN l :
                            /\ j > k
                            /\ l[j].op = "Restore"
                            /\ l[j].key = l[k].key
                            /\ l[j].id # l[k].id}}

\* C24: purge round trip.  A purge_check that succeeds returns every marker
\* below its root that the log knows and the library DB has lost, and the
\* index holds it with its last known state; a restore that succeeds
\* inserts a marker with the start, end, type and final of the purged one
\* and takes the purged one out of the index; no purge_check returns a
\* marker that has been restored.
C24_PurgeRoundTrip ==
    [][/\ (Handled("purge_check") /\ resp'.kind = "ok")
          => /\ \A i \in LastKnown(log) :
                   (log[i].pid \in EpisodesUnder(resp'.id) /\ Wiped(db, log[i]))
                   => /\ log[i].id \in resp'.markers
                      /\ log[i] \in purged'
             /\ resp'.markers \cap RestoredIds(log) = {}
       /\ (Handled("restore") /\ resp'.kind = "ok")
          => /\ \E old \in purged :
                   /\ old.id = resp'.id
                   /\ nextId \in DOMAIN db'
                   /\ db'[nextId].pid = old.pid
                   /\ db'[nextId].start = old.start
                   /\ db'[nextId].end = old.end
                   /\ db'[nextId].type = old.type
                   /\ db'[nextId].final = old.final
             /\ resp'.id \in RestoredIds(log')
             /\ \A e \in purged' : e.id # resp'.id
      ]_vars

\* A marker was added in this session, wiped by the foreign application,
\* found by purge_check and restored, and a purge_check on its parent has
\* been answered after that.
C24_Witness ==
    /\ Len(commits) = 2
    /\ commits[1].op = "Add"
    /\ commits[2].op = "Restore"
    /\ commits[1].id \in RestoredIds(log)
    /\ commits[1].id \notin DOMAIN db
    /\ commits[2].id \in DOMAIN db
    /\ resp.op = "purge_check"
    /\ resp.kind = "ok"
    /\ db[commits[2].id].pid \in EpisodesUnder(resp.id)
    /\ resp.markers = {}

\* The ids of the markers the log has an Ignore entry for.
IgnoredIds(l) == {l[i].id : i \in {k \in DOMAIN l : l[k].op = "Ignore"}}

\* C26: an ignore_purge that succeeds appends exactly one entry to the log,
\* an Ignore entry for its marker, and takes the marker out of the index;
\* no step removes or changes an earlier log entry; an ignored marker is
\* not in the index and is returned by no all_purges and no purge_check,
\* which reconciles the log with the library DB anew.
C26_IgnoredForGood ==
    [][/\ (Handled("ignore_purge") /\ resp'.kind = "ok")
          => /\ Len(log') = Len(log) + 1
             /\ log'[Len(log')].op = "Ignore"
             /\ log'[Len(log')].id = resp'.id
             /\ resp'.id \in {e.id : e \in purged}
       /\ Len(log') >= Len(log)
       /\ SubSeq(log', 1, Len(log)) = log
       /\ {e.id : e \in purged'} \cap IgnoredIds(log') = {}
       /\ (Handled("purge_check") \/ Handled("all_purges"))
          => resp'.markers \cap IgnoredIds(log') = {}
      ]_vars

\* A marker added in this session was wiped and ignored, and a purge_check
\* on its parent has been answered after that without it.
C26_Witness ==
    /\ Len(commits) >= 1
    /\ commits[1].op = "Add"
    /\ commits[1].id \in IgnoredIds(log)
    /\ commits[1].id \notin DOMAIN db
    /\ resp.op = "purge_check"
    /\ resp.kind = "ok"
    /\ resp.id \in Episodes
    /\ \E i \in DOMAIN log :
          log[i].op = "Ignore" /\ log[i].id = commits[1].id
                               /\ log[i].pid = resp.id

\* C27: a restore that fails returns an error and changes nothing: the
\* purged-marker index holds what it held, the marker cache, the library DB
\* and the log are as before.
C27_FailedRestoreKeepsIndex ==
    [][(Handled("restore") /\ resp'.kind # "ok")
       => /\ resp'.code >= 400
          /\ purged' = purged
          /\ markerCache' = markerCache
          /\ db' = db
          /\ log' = log
          /\ commits' = commits
      ]_vars

\* A restore of a marker of the index has failed, the marker cache is
\* built, and the marker is still in the index.
C27_Witness ==
    /\ resp.op = "restore"
    /\ resp.kind = "RestoreFailed"
    /\ markerCache.built
    /\ \E e \in purged :
          /\ e.id = resp.id
          /\ \E m \in RowsOf(db, e.pid) : m.start < e.end /\ e.start < m.end

\* C28: while the service is suspended nothing commits: the library DB,
\* the id counter, the log and the commit history stay as they are, there
\* is no write in flight, and every add, edit and delete fails with
\* Unavailable; the service gets suspended only by a suspend that has found
\* no write in flight any more, and after it arrived no new request began;
\* resume returns the service to Running.
C28_SuspendedNothingCommits ==
    [][/\ boot.pc = "suspended"
          => /\ db' = db
             /\ nextId' = nextId
             /\ log' = log
             /\ commits' = commits
             /\ inflight = {}
             /\ inflight' = {}
       /\ (boot.pc = "suspended"
           /\ (Handled("add") \/ Handled("edit") \/ Handled("delete")))
          => /\ resp'.kind = "Unavailable"
             /\ resp'.code >= 400
       /\ (boot.pc # "suspended" /\ boot'.pc = "suspended")
          => /\ boot.pc = "suspending"
             /\ inflight = {}
             /\ resp'.op = "suspend"
       /\ boot.pc = "suspending"
          => /\ commits' = commits
             /\ inflight' \subseteq inflight
       /\ Handled("resume") => (boot'.pc = "launched" /\ resp'.kind = "ok")
      ]_vars

\* A delete left an index write in flight, the write was carried out, the
\* service was suspended after that, and an add has failed with Unavailable.
C28_Witness ==
    /\ boot.pc = "suspended"
    /\ resp.op = "add"
    /\ resp.kind = "Unavailable"
    /\ Len(commits) = 1
    /\ commits[1].op = "Delete"
    /\ commits[1].id = 1
    /\ db[2].index = 0

(***************************************************************************)
(* Startup, checked on SpecStartup.                                        *)
(***************************************************************************)
\* The step that launches the server.
Launches == boot.pc # "launched" /\ boot'.pc = "launched"

\* C25 as stated: with the action log on, the server is launched by the
\* callback of the purge reconciliation only, whatever the other options.
C25_ReconciledBeforeLaunch ==
    [][(Launches /\ config.backupActions) => boot.pc = "buildAllPurges"]_vars

\* C25 amended: with the action log on, and with extended statistics on
\* and the marker cache built, the server is launched by the callback of
\* the purge reconciliation only; in every other case it is launched with
\* an empty purged-marker index.  No request is answered before the launch.
C25_ReconciledWhenCacheBuilt ==
    [][/\ (Launches /\ config.backupActions /\ config'.extendedMarkerStats)
          => boot.pc = "buildAllPurges"
       /\ (Launches /\ boot.pc # "buildAllPurges") => purged' = {}
       /\ resp' # NoResponse => (boot.pc = "launched" /\ serverUp)
      ]_vars

\* The server has just been launched after a reconciliation that found the
\* marker the library wiped.
C25_Witness ==
    /\ boot.pc = "launched"
    /\ config.backupActions
    /\ config.extendedMarkerStats
    /\ purged = PurgeCandidates(InitLog, InitDb)
    /\ purged # {}
    /\ commits = <<>>
    /\ ~legacyCache.built
    /\ resp = NoResponse

InitConcDb == [id \in {1} |-> InitDb[id]]

InitConc ==
    /\ db = InitConcDb
    /\ nextId = 4
    /\ inflight = {}
    /\ config \in [backupActions : BOOLEAN, extendedMarkerStats : BOOLEAN]
    /\ legacyCache = [built |-> FALSE, map |-> EmptyMap]
    /\ markerCache = IF config.extendedMarkerStats
                     THEN BuildMarkerCache(InitConcDb) ELSE NullMarkerCache
    /\ log = IF config.backupActions THEN InitLog ELSE <<>>
    /\ purged \in StartupPurges(config, InitLog, InitConcDb)
    /\ commits = <<>>
    /\ resp = NoResponse
    /\ running = [c \in Clients |-> NoHandler]
    /\ serverUp = TRUE
    /\ boot = Launched
    /\ breakdown = NoBreakdown
    /\ listing = NoListing
    /\ before = NoSnapshot

\* The handler of client c ends with a response.
Done(c, kind) ==
    /\ resp' = Response(running[c].req, kind)
    /\ running' = [running EXCEPT ![c].pc = "done"]

\* The request arrives: the bounds check and, for edit and delete, the read
\* of the marker.
Begin(c, op, id, startMs, endMs) ==
    LET req == Request(op, id, startMs, endMs)
        bounds == IF op = "delete" THEN "ok"
                  ELSE checkMarkerBounds(startMs, endMs)
        found == getSingleMarker(db, id)
    IN /\ running[c].pc = "idle"
       /\ IF bounds # "ok"
          THEN /\ resp' = Response(req, bounds)
               /\ running' = [running EXCEPT ![c] =
                                 [NoHandler EXCEPT !.pc = "done", !.req = req]]
          ELSE IF op # "add" /\ id \notin DOMAIN db
          THEN /\ resp' = Response(req, "NotFound")
               /\ running' = [running EXCEPT ![c] =
                                 [NoHandler EXCEPT !.pc = "done", !.req = req]]
          ELSE /\ resp' = resp
               /\ running' = [running EXCEPT ![c] =
                    [pc |-> IF op = "add" THEN "planned" ELSE "found",
                     req |-> req,
                     marker |-> IF op = "add" THEN NoMarker ELSE found,
                     plan |-> NoPlan, seq |-> 0]]
       /\ UNCHANGED <<db, nextId, inflight, legacyCache, markerCache, log,
                      purged, commits, before, config, boot, serverUp,
                   breakdown, listing>>

\* getEpisodeMarkers resolves; the handler derives its plan from the rows.
Load(c) ==
    LET h == running[c]
        allMarkers == getEpisodeMarkers(db, h.marker.pid)
        plan == IF h.req.op = "edit"
                THEN EditPlan(allMarkers, h.marker.index, h.req.id,
                              h.req.start, h.req.end)
                ELSE [err |-> "ok", newIndex |-> Len(allMarkers),
                      writes |-> DeletePlan(allMarkers, h.req.id).writes]
    IN /\ h.pc = "found"
       /\ IF plan.err # "ok" THEN Done(c, plan.err)
          ELSE /\ running' = [running EXCEPT ![c].pc = "planned",
                                             ![c].plan = plan]
               /\ resp' = resp
       /\ UNCHANGED <<db, nextId, inflight, legacyCache, markerCache, log,
                      purged, commits, before, config, boot, serverUp,
                   breakdown, listing>>

\* The awaited write and what the handler does before its next await: the
\* index updates it issues, the cache updates and the call of the backup
\* manager, which takes its place (seq) in the queue of the log's writer.
Write(c) ==
    LET h == running[c]
        op == h.req.op
        addDb == AddApply(db, nextId, h.req.id, h.req.start, h.req.end,
                          "intro")
        check == AddCheck(db, h.req.id, h.req.start, h.req.end)
    IN /\ h.pc = "planned"
       /\ \/ /\ Done(c, "DbError")
             /\ UNCHANGED <<db, nextId, inflight, legacyCache, markerCache,
                            log, purged, commits, before, config, boot, serverUp,
                   breakdown, listing>>
          \/ /\ op = "add" /\ check # "ok"
             /\ Done(c, check)
             /\ UNCHANGED <<db, nextId, inflight, legacyCache, markerCache,
                            log, purged, commits, before, config, boot, serverUp,
                   breakdown, listing>>
          \/ /\ op = "add" /\ check = "ok"
             /\ Len(commits) < MaxOps
             /\ db' = addDb
             /\ nextId' = nextId + 1
             /\ legacyCache' =
                   LegacyUpdate(legacyCache,
                                Len(getEpisodeMarkers(addDb, h.req.id)) - 1, 1)
             /\ markerCache' =
                   MarkerCacheDelta(markerCache, Row(addDb, nextId), 1)
             /\ Commit("Add", nextId)
             /\ running' = [running EXCEPT ![c].pc = "written",
                                           ![c].seq = Len(commits) + 1,
                                           ![c].marker = Row(addDb, nextId)]
             /\ UNCHANGED <<inflight, log, purged, config, boot, serverUp, resp,
                   breakdown, listing>>
          \/ /\ op = "edit"
             /\ Len(commits) < MaxOps
             /\ db' = EditApply(db, h.req.id, h.plan.newIndex, h.req.start,
                                h.req.end)
             /\ inflight' = inflight \cup h.plan.writes
             /\ Commit("Edit", h.req.id)
             /\ running' = [running EXCEPT ![c].pc = "written",
                               ![c].seq = Len(commits) + 1,
                               ![c].marker = [h.marker EXCEPT
                                                !.start = h.req.start,
                                                !.end = h.req.end]]
             /\ UNCHANGED <<nextId, legacyCache, markerCache, log, purged,
                            config, boot, serverUp, resp,
                   breakdown, listing>>
          \/ /\ op = "delete"
             /\ Len(commits) < MaxOps
             /\ db' = DeleteApply(db, h.req.id)
             /\ inflight' = inflight \cup h.plan.writes
             /\ markerCache' = MarkerCacheDelta(markerCache, h.marker, 0 - 1)
             /\ legacyCache' =
                   LegacyUpdate(legacyCache, h.plan.newIndex, 0 - 1)
             /\ Commit("Delete", h.req.id)
             /\ running' = [running EXCEPT ![c].pc = "written",
                                           ![c].seq = Len(commits) + 1]
             /\ UNCHANGED <<nextId, log, purged, config, boot, serverUp, resp,
                   breakdown, listing>>

\* The backup manager records the actions in whatever order they end.
FinishAnyOrder(c) ==
    LET h == running[c]
        op == h.req.op
    IN /\ h.pc = "written"
       /\ log' = Recorded(IF op = "add" THEN recordAdd(log, h.marker)
                          ELSE IF op = "edit" THEN recordEdit(log, h.marker)
                          ELSE recordDelete(log, h.marker))
       /\ Done(c, "ok")
       /\ UNCHANGED <<db, nextId, inflight, legacyCache, markerCache, purged,
                      commits, before, config, boot, serverUp,
                   breakdown, listing>>

\* The backup manager has recorded the action; the response is sent.  The
\* log has a single writer, which records the actions in the order of the
\* calls.
Finish(c) ==
    LET h == running[c]
        op == h.req.op
    IN /\ h.pc = "written"
       /\ \A other \in Clients \ {c} :
             running[other].pc = "written" => running[other].seq > h.seq
       /\ log' = Recorded(IF op = "add" THEN recordAdd(log, h.marker)
                          ELSE IF op = "edit" THEN recordEdit(log, h.marker)
                          ELSE recordDelete(log, h.marker))
       /\ Done(c, "ok")
       /\ UNCHANGED <<db, nextId, inflight, legacyCache, markerCache, purged,
                      commits, before, config, boot, serverUp,
                   breakdown, listing>>

BeginStep ==
    \E c \in Clients, op \in {"add", "edit", "delete"},
       id \in (1..nextId) \cup Episodes, startMs, endMs \in ConcTimes :
       /\ op = "add" => id \in Episodes
       /\ op # "add" => id \in 1..nextId
       /\ op = "delete" => startMs = 0 /\ endMs = 0
       /\ Begin(c, op, id, startMs, endMs)

LoadStep == \E c \in Clients : Load(c)
WriteStep == \E c \in Clients : Write(c)
FinishStep == \E c \in Clients : Finish(c)

NextConc ==
    \/ BeginStep
    \/ LoadStep
    \/ WriteStep
    \/ FinishStep
    \/ ApplyIndexWrite
    \/ FailIndexWrite

SpecConc == InitConc /\ [][NextConc]_vars

\* Every handler has sent its response.
AllDone == \A c \in Clients : running[c].pc = "done"

\* C4: mutations of one parent are serialized: when two concurrent requests
\* on the same parent have both been answered, the markers of the parent do
\* not overlap, as after running the two one after the other.
C4_ConcurrentNoOverlap == AllDone => ~HasOverlap(db)

\* C2: after any sequence of committed Add, Edit, Delete, Shift and Restore
\* operations no two markers of one parent overlap.
C2_NoOverlap == ~HasOverlap(db)

\* A Shift and then an Edit have committed, and a parent holds two markers.
C2_Witness ==
    /\ Len(commits) = 2
    /\ commits[1].op = "Shift"
    /\ commits[2].op = "Edit"
    /\ \E p \in Episodes : Cardinality(RowsOf(db, p)) >= 2

\* The entries the log has gained in this session: the log of an earlier
\* session (InitLog) precedes them.
SessionLog == SubSeq(log, Len(InitLog) + 1, Len(log))

MovedBy(types) ==
    /\ breakdown'.moves = breakdown.moves + 1
    /\ breakdown'.last \in types

\* C31: adding or deleting a commercial marker leaves the (intros, credits)
\* bucket of its parent as it is.
C31_CommercialLeavesBucket ==
    [][MovedBy({"commercial"}) =>
          /\ ic(breakdown'.bucket) = ic(breakdown.bucket)
          /\ cc(breakdown'.bucket) = cc(breakdown.bucket)]_vars

\* The key of the followed item reads back as the numbers it was packed from.
KeyReadsBack ==
    /\ ic(breakdown.bucket) = breakdown.intros
    /\ cc(breakdown.bucket) = breakdown.credits
    /\ markerCountFromKey(breakdown.bucket) =
          breakdown.intros + breakdown.credits

\* The count a move changes, after the move, as the key had it before.
MovedCount ==
    IF breakdown'.last = "intro"
    THEN ic(breakdown.bucket) + (breakdown'.intros - breakdown.intros)
    ELSE cc(breakdown.bucket) + (breakdown'.credits - breakdown.credits)

MovedCountInRange ==
    IF breakdown'.last = "intro"
    THEN MovedCount \in 0..IntroMask
    ELSE MovedCount \in 0..((2 ^ (CreditsShift - 1)) - 1)

\* C36: for 0 <= i < 2^16 and 0 <= c < 2^15 the key packed from (i, c)
\* unpacks to i and c and its marker count is i + c; a move by one marker of
\* one type changes that type's count by one and leaves the other type's
\* count, as long as the changed count stays within its range.
C36_LosslessKeyInRange ==
    [][/\ breakdown.moves = 0 => KeyReadsBack
       /\ MovedBy({"intro", "credits"}) /\ MovedCountInRange =>
             /\ ic(breakdown'.bucket) =
                   IF breakdown'.last = "intro" THEN MovedCount
                   ELSE ic(breakdown.bucket)
             /\ cc(breakdown'.bucket) =
                   IF breakdown'.last = "credits" THEN MovedCount
                   ELSE cc(breakdown.bucket)]_vars

\* C36 as stated: a move by one marker of one type changes only that type's
\* count, for every i and c of the ranges.
C36_LosslessKey ==
    [][/\ breakdown.moves = 0 => KeyReadsBack
       /\ MovedBy({"intro"}) => cc(breakdown'.bucket) = cc(breakdown.bucket)
       /\ MovedBy({"credits"}) =>
             ic(breakdown'.bucket) = ic(breakdown.bucket)]_vars

\* The last credits marker the range has room for was added to an item
\* that has the most intros the range has room for.
C36_Witness ==
    /\ breakdown.last = "credits"
    /\ breakdown.moves = 1
    /\ ic(breakdown.bucket) = IntroMask
    /\ cc(breakdown.bucket) = (2 ^ (CreditsShift - 1)) - 1

\* C37: after any sequence of initBase, delta, data and collapsedBuckets
\* calls totalItems() is the number of initBase calls and every bucket
\* holds a non-negative integer.
C37_TotalItemsCountsInits ==
    breakdown.last # "none" \/ breakdown.inits > 0 =>
        /\ ~totalItemsIsNaN(breakdown.counts)
        /\ totalItems(breakdown.counts) = breakdown.inits
        /\ \A k \in DOMAIN breakdown.counts.counts :
               breakdown.counts.counts[k] >= 0


\* C39: a get_episodes request whose query succeeded and whose thumbnail
\* checks have all settled has got exactly one response, and with
\* thumbnails enabled every episode of it has a defined hasThumbnails.
C39_OneCompleteResponse ==
    listing.pc # "none" /\ listing.pending = {} =>
        /\ listing.responses = 1
        /\ listing.useThumbnails /\ listing.code = 200 =>
              \A i \in DOMAIN listing.sent : listing.sent[i] # "undefined"


\* The steps of the startup sequence.
StartupStep ==
    \/ run
    \/ databaseVerified
    \/ backupManagerReady
    \/ afterMarkerCacheManagerInit
    \/ buildCacheFailed
    \/ buildAllPurgesDone

\* C34: on every startup path the server is launched exactly once: never
\* before the database is verified, with the cache enabled never before
\* its build has ended, and the startup goes on until the launch; the purge
\* scan starts only after a successful cache build.
C34_LaunchedOnce ==
    [][/\ boot'.launches <= 1
       /\ (boot'.pc = "launched") = (boot'.launches = 1)
       /\ boot.pc # "launched" => ENABLED StartupStep
       /\ boot'.launches # boot.launches =>
             /\ boot.pc \in {"verifyDatabase", "initBackup", "buildCache",
                              "buildAllPurges"}
             /\ config.extendedMarkerStats =>
                   boot.pc \in {"buildCache", "buildAllPurges"}
       /\ boot'.pc = "buildAllPurges" /\ boot.pc # "buildAllPurges" =>
             /\ boot.pc = "buildCache"
             /\ markerCache'.built
             /\ ~boot'.cacheFailed]_vars

\* The server has been launched at the end of the longest path: database,
\* backup manager, cache build, purge scan.
C34_Witness ==
    /\ boot.pc = "launched"
    /\ boot.launches = 1
    /\ config.backupActions
    /\ config.extendedMarkerStats
    /\ markerCache.built
    /\ resp = NoResponse
    /\ commits = <<>>


\* The number of episodes that have x markers in the library DB.
EpisodesWith(d, x) ==
    Cardinality({e \in Episodes : Cardinality(RowsOf(d, e)) = x})

\* C35: the statistics of a live scan map every marker count X to the
\* number of episodes with X markers: the bucket values are integers that
\* sum up to the number of episodes.
C35_ScanCountsItems ==
    [][Handled("get_stats") /\ ~legacyCache.built /\ legacyCache'.built =>
          LET m == legacyCache'.map
          IN /\ m.nan = {}
             /\ \A x \in DOMAIN m.counts : m.counts[x] = EpisodesWith(db, x)
             /\ \A e \in Episodes : Has(m, Cardinality(RowsOf(db, e)))
             /\ totalItems(m) = Cardinality(Episodes)]_vars


\* C32: the write of an Edit or a Delete and the index updates of the
\* siblings are one step: when the success response is produced no index
\* update is outstanding and the parent's indices are 0..n-1 by start.
C32_AtomicReindex ==
    [][(/\ Handled("edit") \/ Handled("delete")
        /\ resp'.kind = "ok"
        /\ inflight = {}
        /\ \A p \in Episodes : IndexesContiguous(db, p))
       => /\ inflight' = {}
          /\ \A p \in Episodes : IndexesContiguous(db', p)]_vars


\* The library DB once the index updates ws have been executed.
Reindexed(d, ws) ==
    [id \in DOMAIN d |->
        IF \E w \in ws : w.id = id
        THEN [d[id] EXCEPT !.index = (CHOOSE w \in ws : w.id = id).index]
        ELSE d[id]]

\* The stored indices of the markers of p ascend with start and have a gap.
IndexGap(d, p) ==
    LET rows == RowsOf(d, p) IN
    /\ \A a, b \in rows : a.id # b.id => a.index # b.index
    /\ \A a, b \in rows : a.index < b.index => a.start < b.start
    /\ {m.index : m \in rows} # 0..(Cardinality(rows) - 1)

\* C33: after the foreign application removed a marker of a parent, an Edit
\* of a surviving marker to a well-formed interval is refused exactly when
\* the interval meets a sibling, and else replaces the interval of that
\* marker only and leaves the parent with the indices 0..n-1 by start.
C33_EditAfterForeignRemoval ==
    [][(/\ Handled("edit")
        /\ inflight = {}
        /\ resp'.id \in DOMAIN db
        /\ IndexGap(db, db[resp'.id].pid)
        /\ 0 <= resp'.start /\ resp'.start < resp'.end
        /\ resp'.end <= Dur)
       => LET p == db[resp'.id].pid
              after == Reindexed(db', inflight')
          IN /\ resp'.kind \in {"ok", "Overlap", "DbError"}
             /\ resp'.kind = "Overlap" <=>
                   \E m \in RowsOf(db, p) :
                      EditOverlaps(m, resp'.id, resp'.start, resp'.end)
             /\ resp'.kind = "ok" =>
                   /\ DOMAIN after = DOMAIN db
                   /\ after[resp'.id].start = resp'.start
                   /\ after[resp'.id].end = resp'.end
                   /\ \A id \in DOMAIN db \ {resp'.id} :
                         /\ after[id].start = db[id].start
                         /\ after[id].end = db[id].end
                   /\ IndexesContiguous(after, p)]_vars


\* The table of the dialog shows a row that is checked and in error or cut
\* off, or the rows of an episode with several rows of which none is checked.
TableFlagged(d, rootId, startShift, endShift, markerTypeSelected, enabled) ==
    LET rows == TableRows(d, rootId, markerTypeSelected)
    IN \/ \E m \in rows :
             /\ m.id \in enabled
             /\ BulkShiftRowClass(m, OrZero(startShift), OrZero(endShift))
                   \in {"Error", "Cutoff"}
       \/ \E a, b \in rows :
             /\ a.id # b.id
             /\ a.pid = b.pid
             /\ \A o \in rows : o.pid = a.pid => o.id \notin enabled

\* C38: while the customization table shows an unresolved linked row, a cut
\* off row or an error row, Apply sends nothing (the shift is left to Force
\* Apply), and every marker that the marker type filter keeps out of the
\* table is on the ignore list of the command that is sent.
C38_ApplyOnlyWhenClean ==
    /\ resp.op = "shift" /\ resp.type \in TypeSelections =>
          markersWithoutRows(db, resp.id, resp.type) \subseteq resp.ignored
    /\ Idle =>
          \A rootId \in Items, startShift, endShift \in ShiftInputs,
             markerTypeSelected \in TypeSelections,
             enabled \in SUBSET DOMAIN db :
             TableFlagged(db, rootId, startShift, endShift,
                          markerTypeSelected, enabled)
             => ~tryApplySends(rootId, startShift, endShift, TRUE,
                               markerTypeSelected, enabled)

\* Apply has sent a shift of the season with the table showing the intros
\* only: the credits marker 2 is on the ignore list, and so is the unchecked
\* row of marker 3.
C38_Witness ==
    /\ resp.op = "shift"
    /\ ~resp.force
    /\ resp.type = "intro"
    /\ resp.id = SeasonId
    /\ resp.ignored = {2, 3}
    /\ resp.kind = "ok"

====
